---- MODULE Spec2Model ----
(***************************************************************************)
(* Model of the SD/MMC host driver (sdmmc_host_esp32): the command         *)
(* descriptor and its hardware command word, the clock divider arithmetic, *)
(* the interrupt handler feeding EVENT_QUEUE, and the transaction engine   *)
(* (do_transaction / handle_event / process_events).                       *)
(*                                                                         *)
(* A u32 status word or flag word is modelled as the set of its set bit    *)
(* positions: `a & b` is intersection, `a | b` union, `a & !b` difference, *)
(* `x != 0` is non-emptiness.  bit!(n) is {n}.                             *)
(***************************************************************************)
EXTENDS Integers, Sequences, FiniteSets, TLC

VARIABLES
    pc,            \* position of the consuming task
    cmd,           \* the SdmmcCmd descriptor borrowed by do_transaction
    state,         \* `state` local of do_transaction (enum State)
    unhandled,     \* `unhandled` local of do_transaction (Event)
    ret,           \* `ret` local / return value of the running call
    freq_khz,      \* SdmmcCard.freq_khz (or the caller's &mut freq_khz)
    regs,          \* the controller's register file, field by field
    log,           \* registers written by the running call, in order
    EVENT_QUEUE,   \* static EVENT_QUEUE: Channel<_, Event, 32>
    raised,        \* status bits the hardware has raised so far
    hw_resp,       \* content of the RESP0..RESP3 registers
    buf,           \* content of the caller's data buffer
    trail,         \* transaction state after each processed Event
    visited,       \* states logged by the last process_events call
    resp_reads,    \* reads of RESP registers made by the running call
    req_khz,       \* the frequency the caller asked set_card_clk for
    hw_cmd,        \* the SdmmcHwCmd built by the last make_hw_cmd call
    txs,           \* do_transaction calls made so far
    cur_slot,      \* the slot the running call addresses
    lines,         \* CDETECT / WRTPRT values and cmd_taken waits of the last call
    isr,           \* register reads and writes of the last handler invocation
    rcvd,          \* the Event returned by the last EVENT_QUEUE.receive()
    reset_locals,  \* Sdmmc::reset: time since t0 and yield_delay_ms
    busy_wait,     \* wait_for_busy_cleared: polls and yields made, busy line
    op_cond,       \* cmd_send_op_cond: its arguments, locals and result
    intr,          \* interrupt status registers, the handler's position, bits raised and sent
    wait_ticks     \* ticks since the pending wait_for_event of handle_event began

vars == <<pc, cmd, state, unhandled, ret, freq_khz, regs, log, EVENT_QUEUE,
          raised, hw_resp, buf, trail, visited, resp_reads, req_khz, hw_cmd, txs,
          cur_slot, lines, isr, rcvd, reset_locals, busy_wait,
                   op_cond, intr, wait_ticks>>

----------------------------------------------------------------------------
(* Bounds of the model *)

MaxRunBits == 3       \* status bits raised by the hardware in one run
MaxEventBits == 3     \* status bits raised together in one interrupt
MaxQueue == 2         \* Events waiting in EVENT_QUEUE at one time
MaxHwFaults == 1      \* asserted line bits and timed-out waits in one call
MaxFreqKhz == 40001   \* largest frequency request explored
MaxOpcode == 25       \* largest opcode explored for make_hw_cmd
MaxTx == 1            \* do_transaction calls in one run
TickMs == 250         \* smallest clock advance between two readings, in ms
MaxDmaIrqs == 1       \* DMA interrupts raised while the consumer may stall
MaxSeqTx == 2         \* submissions of a run of back-to-back transactions
MaxTimeoutMs == 3      \* largest timeout_ms explored for the busy wait
TicksPerMs == 2       \* ticks of the time driver in one millisecond
MaxBusyReads == 7     \* reads of the busy line before it clears
MaxRaceBits == 3      \* status bits the hardware sets around one handler run

----------------------------------------------------------------------------
(* src/src/common.rs: interrupt status bits, masks, opcodes, flags *)

SDMMC_INTMASK_EBE == {15}
SDMMC_INTMASK_SBE == {13}
SDMMC_INTMASK_HLE == {12}
SDMMC_INTMASK_HTO == {10}
SDMMC_INTMASK_VOLT_SW == SDMMC_INTMASK_HTO
SDMMC_INTMASK_DTO == {9}
SDMMC_INTMASK_RTO == {8}
SDMMC_INTMASK_DCRC == {7}
SDMMC_INTMASK_RCRC == {6}
SDMMC_INTMASK_DATA_OVER == {3}
SDMMC_INTMASK_CMD_DONE == {2}
SDMMC_INTMASK_RESP_ERR == {1}
SDMMC_INTMASK_CD == {0}
SDMMC_IDMAC_INTMASK_NI == {8}
SDMMC_IDMAC_INTMASK_RI == {1}
SDMMC_IDMAC_INTMASK_TI == {0}

SD_DATA_ERR_MASK ==
    SDMMC_INTMASK_DTO \cup SDMMC_INTMASK_DCRC \cup SDMMC_INTMASK_HTO
        \cup SDMMC_INTMASK_SBE \cup SDMMC_INTMASK_EBE

SD_DMA_DONE_MASK_no_ni ==
    SDMMC_IDMAC_INTMASK_RI \cup SDMMC_IDMAC_INTMASK_TI

SD_DMA_DONE_MASK ==
    SDMMC_IDMAC_INTMASK_RI \cup SDMMC_IDMAC_INTMASK_TI \cup SDMMC_IDMAC_INTMASK_NI

SD_CMD_ERR_MASK ==
    SDMMC_INTMASK_RTO \cup SDMMC_INTMASK_RCRC \cup SDMMC_INTMASK_RESP_ERR

MMC_GO_IDLE_STATE == 0
MMC_READ_DAT_UNTIL_STOP == 11
MMC_STOP_TRANSMISSION == 12
MMC_READ_BLOCK_SINGLE == 17
MMC_READ_BLOCK_MULTIPLE == 18
MMC_WRITE_DAT_UNTIL_STOP == 20
MMC_WRITE_BLOCK_SINGLE == 24
MMC_WRITE_BLOCK_MULTIPLE == 25
SD_SEND_IF_COND == 8
SD_SWITCH_VOLTAGE == 11

SCF_CMD_READ == {6}
SCF_RSP_136 == {9}
SCF_RSP_CRC == {10}
SCF_RSP_IDX == {11}
SCF_RSP_PRESENT == {12}
SCF_WAIT_BUSY == {13}
SCF_RSP_R0 == {}
SCF_RSP_R1 == SCF_RSP_PRESENT \cup SCF_RSP_CRC \cup SCF_RSP_IDX
SCF_RSP_R2 == SCF_RSP_PRESENT \cup SCF_RSP_CRC \cup SCF_RSP_136

(* src/src/lib.rs *)
APB_CLK_FREQ == 80000000
QUEUE_CAPACITY == 32

(* src/src/sdmmc.rs *)
RESET_TIMEOUT_MS == 5000
U8 == 256

NoError == "None"
Slots == {"Slot0", "Slot1"}

\* `slot as u8`: the enum discriminant (Slot0 = 0, Slot1 = 1) as a bit set
SlotAsU8(slot) == IF slot = "Slot0" THEN {} ELSE {0}

----------------------------------------------------------------------------
(* src/src/cmd.rs: the command descriptor and its hardware command word *)

\* SdmmcCmd::default()
SdmmcCmd_default ==
    [opcode |-> 0, arg |-> 0, responce |-> <<0, 0, 0, 0>>, data |-> FALSE,
     datalen |-> 0, blklen |-> 0, flags |-> {}, err |-> NoError,
     timeout_ms |-> 1000]

has_flag(c, flag) == (c.flags \cap flag) # {}

\* SdmmcHwCmd::default(): every field of the command word cleared
SdmmcHwCmd_default ==
    [cmd_index |-> 0, response_expect |-> FALSE, response_long |-> FALSE,
     check_response_crc |-> FALSE, data_expected |-> FALSE, rw |-> FALSE,
     send_auto_stop |-> FALSE, wait_complete |-> FALSE,
     stop_abort_cmd |-> FALSE, send_init |-> FALSE, card_num |-> 0,
     update_clk_reg |-> FALSE, volt_switch |-> FALSE,
     use_hold_reg |-> FALSE, start_command |-> FALSE]

\* the assert! at the head of make_hw_cmd; `%` by zero panics as well
make_hw_cmd_panics(c) ==
    c.data /\ (c.blklen = 0 \/ c.datalen % c.blklen # 0)

make_hw_cmd_auto_stop_no_len(c) ==
    c.data
        /\ (c.opcode = MMC_WRITE_BLOCK_MULTIPLE
            \/ c.opcode = MMC_READ_BLOCK_MULTIPLE
            \/ c.opcode = MMC_WRITE_DAT_UNTIL_STOP
            \/ c.opcode = MMC_READ_DAT_UNTIL_STOP)

make_hw_cmd_auto_stop(c) ==
    c.data
        /\ c.datalen > 0
        /\ (c.opcode = MMC_WRITE_BLOCK_MULTIPLE
            \/ c.opcode = MMC_READ_BLOCK_MULTIPLE
            \/ c.opcode = MMC_WRITE_DAT_UNTIL_STOP
            \/ c.opcode = MMC_READ_DAT_UNTIL_STOP)

make_hw_cmd_wait_always(c) == TRUE

make_hw_cmd_wait_complete(c) ==
    c.opcode # MMC_STOP_TRANSMISSION
        /\ c.opcode # MMC_GO_IDLE_STATE
        /\ c.opcode # SD_SWITCH_VOLTAGE

make_hw_cmd(c) ==
    [SdmmcHwCmd_default EXCEPT
        !.cmd_index = c.opcode,
        !.stop_abort_cmd = (c.opcode = MMC_STOP_TRANSMISSION),
        !.send_init = (c.opcode = MMC_GO_IDLE_STATE),
        !.volt_switch = (c.opcode = SD_SWITCH_VOLTAGE),
        !.wait_complete = make_hw_cmd_wait_complete(c),
        !.response_expect = has_flag(c, SCF_RSP_PRESENT),
        !.response_long = has_flag(c, SCF_RSP_PRESENT) /\ has_flag(c, SCF_RSP_136),
        !.check_response_crc = has_flag(c, SCF_RSP_CRC),
        !.data_expected = c.data,
        !.rw = (c.data /\ has_flag(c, SCF_CMD_READ)),
        !.send_auto_stop = make_hw_cmd_auto_stop(c)]

----------------------------------------------------------------------------
(* src/src/sdmmc.rs: clock divider arithmetic.  The u32 products          *)
(* freq_khz * 1000 and 2 * freq_khz * 1000 are only formed for             *)
(* freq_khz < 40000, where they stay below 2^32, so no wrap-around occurs. *)

get_clk_divs_wide(f) ==
    IF f >= 40000 THEN <<4, 0>>
    ELSE IF f = 20000 THEN <<8, 0>>
    ELSE IF f = 400 THEN <<10, 20>>
    ELSE
        LET host_div == (2 * APB_CLK_FREQ) \div (f * 1000)
        IN  IF host_div > 15
            THEN LET d == 2 * f * 1000
                     card_div == APB_CLK_FREQ \div d
                                   + (IF APB_CLK_FREQ % d > 0 THEN 1 ELSE 0)
                 IN  <<2, card_div>>
            ELSE IF (2 * APB_CLK_FREQ) % (f * 1000) > 0
                 THEN <<host_div + 1, 0>>
                 ELSE <<host_div, 0>>

\* get_clk_divs(freq_khz) -> (u8, u8): `as u8` keeps the low eight bits
get_clk_divs(f) ==
    LET w == get_clk_divs_wide(f) IN <<w[1] % U8, w[2] % U8>>

\* calc_freq(host_div, card_div); a zero host_div panics (division by zero)
calc_freq(host_div, card_div) ==
    (((2 * APB_CLK_FREQ) \div host_div)
        \div (IF card_div = 0 THEN 1 ELSE card_div * 2)) \div 1000

----------------------------------------------------------------------------
(* The register file.  `write` starts from the register's reset value and  *)
(* sets the named fields; `modify` keeps the other fields.                  *)

CTRL_FIFO_RESET == {1}
CTRL_DMA_RESET == {2}
CTRL_INT_ENABLE == {4}
CTRL_DMA_ENABLE == {5}
CTRL_USE_INTERNAL_DMAC == {25}
BMOD_FB == {1}
BMOD_DE == {7}

\* reset values of the registers the driver writes with `write`
ResetValue ==
    [cclk_enable |-> {}, lp_enable |-> {}, clksrc |-> {},
     clk_divider0 |-> 0, clk_divider1 |-> 0,
     edge_h |-> 0, edge_l |-> 0, edge_n |-> 0,
     data_timeout |-> 16777215, response_timeout |-> 64,
     cmdarg |-> 0, cmd |-> SdmmcHwCmd_default,
     ctrl |-> {}, bmod |-> {}, bytcnt |-> 512, blksiz |-> 512,
     dbaddr |-> 0, pldmnd |-> 0]

\* the register file once Sdmmc::init has returned Ok (SdmmcCard::new)
RegsAfterInit ==
    [ResetValue EXCEPT
        !.cclk_enable = {0, 1},
        !.edge_h = 1, !.edge_l = 0, !.edge_n = 1,
        !.ctrl = CTRL_INT_ENABLE \cup CTRL_DMA_ENABLE]

\* the state threaded through the driver's synchronous code: registers,
\* the order of register writes, and the cmd_taken waits performed so far
Machine(r, l, w) == [regs |-> r, log |-> l, waits |-> w]

Wr(m, name, r) == [m EXCEPT !.regs = r, !.log = Append(m.log, name)]

\* `let v = ...;`: the value v under a name, for the code that follows
With(v, K(_)) == K(v)

Res(m, res) == [m |-> m, res |-> res]

\* Sdmmc::set_clk_always_on
set_clk_always_on(m, slot, en) ==
    Wr(m, "clkena",
       [m.regs EXCEPT !.lp_enable =
            IF en THEN @ \cup SlotAsU8(slot) ELSE @ \ SlotAsU8(slot)])

\* Sdmmc::enable_card_clock
enable_card_clock(m, slot, en) ==
    Wr(m, "clkena",
       [m.regs EXCEPT !.cclk_enable =
            IF en THEN @ \cup SlotAsU8(slot) ELSE @ \ SlotAsU8(slot)])

\* Sdmmc::set_clk_div (the assert!(div > 1 && div <= 16) is checked by the caller)
set_clk_div(m, div) ==
    Wr(m, "clk_edge_sel",
       [m.regs EXCEPT !.edge_h = div - 1, !.edge_l = (div \div 2) - 1,
                      !.edge_n = div - 1])

\* Sdmmc::get_clock_div
get_clock_div(r) == r.edge_h + 1

\* Sdmmc::get_card_clock_div
get_card_clock_div(r, slot) ==
    IF slot = "Slot0" THEN r.clk_divider0 ELSE r.clk_divider1

sdmmc_dma_stop_skipped(m) == m

\* Sdmmc::dma_stop
sdmmc_dma_stop(m) ==
    With(Wr(m, "ctrl", [m.regs EXCEPT !.ctrl = CTRL_DMA_RESET]), LAMBDA m1 :
    With(Wr(m1, "ctrl", [m1.regs EXCEPT !.ctrl = @ \ CTRL_USE_INTERNAL_DMAC]),
         LAMBDA m2 :
    Wr(m2, "bmod", [m2.regs EXCEPT !.bmod = {}])))

\* Sdmmc::enable_dma
enable_dma(m, en) ==
    With(Wr(m, "ctrl",
            [m.regs EXCEPT !.ctrl =
                IF en THEN @ \cup (CTRL_DMA_ENABLE \cup CTRL_USE_INTERNAL_DMAC)
                ELSE @ \ (CTRL_DMA_ENABLE \cup CTRL_USE_INTERNAL_DMAC)]),
         LAMBDA m1 :
    Wr(m1, "bmod",
       [m1.regs EXCEPT !.bmod = IF en THEN BMOD_FB \cup BMOD_DE ELSE {}]))

\* Sdmmc::dma_resume
sdmmc_dma_resume(m) == Wr(m, "pldmnd", [m.regs EXCEPT !.pldmnd = 1])

\* SdmmcCard::dma_prepare
dma_prepare(m, data_size, block_size) ==
    With(Wr(m, "bytcnt", [m.regs EXCEPT !.bytcnt = data_size]), LAMBDA m1 :
    With(Wr(m1, "blksiz", [m1.regs EXCEPT !.blksiz = block_size]), LAMBDA m2 :
    With(Wr(m2, "dbaddr", [m2.regs EXCEPT !.dbaddr = 1]), LAMBDA m3 :
    sdmmc_dma_resume(enable_dma(m3, TRUE)))))

\* true when DMA is running: armed by enable_dma and not stopped since
DmaActive(r) == (r.bmod \cap BMOD_DE) # {}

(* Hardware inputs of one driver call: hw.cd and hw.wp are the values read  *)
(* from the card_detect_n and write_protect fields, hw.fail is the number   *)
(* of the cmd_taken wait that runs out of time (0: every wait succeeds).    *)

\* one `while !self.cmd_taken()` loop of start_cmd: TRUE when it times out
WaitTimesOut(m, hw) == m.waits + 1 = hw.fail

Waited(m) == [m EXCEPT !.waits = @ + 1]

start_cmd_skips_wait_never(c) == FALSE

\* start_cmd: `cmd.volt_switch() && cmd.update_clk_reg()`, the command that
\* is written without waiting for cmd_taken first
start_cmd_skips_wait(c) == c.volt_switch /\ c.update_clk_reg

start_cmd_word_as_passed(c, slot) == [c EXCEPT !.start_command = TRUE]

\* start_cmd: the word written to the command register, after
\* with_use_hold_reg(true), with_card_num(slot as u8), with_start_command(true)
start_cmd_word(c, slot) ==
    [c EXCEPT !.use_hold_reg = TRUE,
              !.card_num = IF slot = "Slot0" THEN 0 ELSE 1,
              !.start_command = TRUE]

\* Sdmmc::start_cmd
start_cmd(m, slot, c, arg, hw) ==
    IF (SlotAsU8(slot) \cap hw.cd) # {} /\ ~c.update_clk_reg
    THEN Res(m, "NotFound")
    ELSE IF c.data_expected /\ c.rw /\ (SlotAsU8(slot) \cap hw.wp) # {}
    THEN Res(m, "NotFound")
    ELSE IF ~start_cmd_skips_wait(c) /\ WaitTimesOut(m, hw)
    THEN Res(Waited(m), "Timeout")
    ELSE
        With(IF start_cmd_skips_wait(c) THEN m ELSE Waited(m),
             LAMBDA m1 :
        With(Wr(m1, "cmdarg", [m1.regs EXCEPT !.cmdarg = arg]), LAMBDA m2 :
        With(Wr(m2, "cmd", [m2.regs EXCEPT !.cmd = start_cmd_word(c, slot)]),
             LAMBDA m3 :
        Res(Waited(m3), IF WaitTimesOut(m3, hw) THEN "Timeout" ELSE "Ok"))))

\* clk_update_cmd: the word it passes to start_cmd
clk_update_word(slot, is_cmd11) ==
    [SdmmcHwCmd_default EXCEPT
        !.card_num = IF slot = "Slot0" THEN 0 ELSE 1,
        !.update_clk_reg = TRUE,
        !.wait_complete = TRUE,
        !.volt_switch = is_cmd11]

\* Sdmmc::clk_update_cmd
clk_update_cmd(m, slot, is_cmd11, hw) ==
    start_cmd(m, slot, clk_update_word(slot, is_cmd11), 0, hw)

\* Sdmmc::enable_clk_cmd11
enable_clk_cmd11(m, slot, en, hw) ==
    clk_update_cmd(enable_card_clock(m, slot, en), slot, TRUE, hw)

\* Sdmmc::set_card_clk; the result carries the frequency written back
\* through the &mut freq_khz argument and whether set_clk_div's assert failed
set_card_clk_result(m, res, f) == [m |-> m, res |-> res, freq |-> f]

\* the `match slot` of set_card_clk: CLKSRC, then CLKDIV written with `write`
set_card_clk_dividers(m, slot, card_div) ==
    IF slot = "Slot0"
    THEN With(Wr(m, "clksrc", [m.regs EXCEPT !.clksrc = @ \cap {0, 1}]),
              LAMBDA m1 :
         Wr(m1, "clkdiv",
            [m1.regs EXCEPT !.clk_divider0 = card_div,
                            !.clk_divider1 = ResetValue.clk_divider1]))
    ELSE With(Wr(m, "clksrc",
                 [m.regs EXCEPT !.clksrc = (@ \cap {2, 3}) \cup {1}]),
              LAMBDA m1 :
         Wr(m1, "clkdiv",
            [m1.regs EXCEPT !.clk_divider1 = card_div,
                            !.clk_divider0 = ResetValue.clk_divider0]))

\* the two `tmout().write` calls that end set_card_clk
set_card_clk_tmout(m, real_freq) ==
    With(Wr(m, "tmout",
            [m.regs EXCEPT
                !.data_timeout = IF 100 * real_freq < 16777215
                                 THEN 100 * real_freq ELSE 16777215,
                !.response_timeout = ResetValue.response_timeout]),
         LAMBDA m1 :
    Wr(m1, "tmout",
       [m1.regs EXCEPT !.response_timeout = 255,
                       !.data_timeout = ResetValue.data_timeout]))

set_card_clk(m, slot, freq, hw) ==
    With(clk_update_cmd(
             Wr(m, "clkena", [m.regs EXCEPT !.cclk_enable = @ \ SlotAsU8(slot)]),
             slot, FALSE, hw),
         LAMBDA u1 :
    IF u1.res # "Ok" THEN set_card_clk_result(u1.m, u1.res, freq) ELSE
    With(get_clk_divs(freq), LAMBDA divs :
    With(calc_freq(divs[1], divs[2]), LAMBDA real_freq :
    With(set_card_clk_dividers(u1.m, slot, divs[2]), LAMBDA m2 :
    IF ~(divs[1] > 1 /\ divs[1] <= 16)
    THEN set_card_clk_result(m2, "panic", real_freq) ELSE
    With(clk_update_cmd(set_clk_div(m2, divs[1]), slot, FALSE, hw), LAMBDA u2 :
    IF u2.res # "Ok" THEN set_card_clk_result(u2.m, u2.res, real_freq) ELSE
    With(clk_update_cmd(
             Wr(u2.m, "clkena",
                [u2.m.regs EXCEPT !.cclk_enable = @ \cup SlotAsU8(slot),
                                  !.lp_enable = @ \cup SlotAsU8(slot)]),
             slot, FALSE, hw),
         LAMBDA u3 :
    IF u3.res # "Ok" THEN set_card_clk_result(u3.m, u3.res, real_freq) ELSE
    set_card_clk_result(set_card_clk_tmout(u3.m, real_freq), "Ok", real_freq)
    ))))))

----------------------------------------------------------------------------
(* src/src/sdmmc_sd.rs: the per-command state machine.  The record `s`     *)
(* carries what process_events and its callees read and change: the        *)
(* descriptor, the machine, the working snapshot `event`, the locals       *)
(* `state` and `next_state`, the RESP register reads and a panic marker.   *)

States == {"Idle", "SendingCmd", "SendingData", "Busy",
           "SendingVoltageSwitch", "WaitingVoltageSwitch"}

NoEvent == [sdmmc_status |-> {}, dma_status |-> {}]

mask_check_no_clear(st, mask) ==
    [ret |-> (st \cap mask) # {}, state |-> st]

mask_check_and_clear(st, mask) ==
    [ret |-> (st \cap mask) # {}, state |-> st \ mask]

process_command_response_err_crc_first(c, status) ==
    IF has_flag(c, SCF_RSP_CRC) /\ (status \cap SDMMC_INTMASK_RCRC) # {}
    THEN "InvalidCRC"
    ELSE IF (status \cap SDMMC_INTMASK_RTO) # {} THEN "Timeout"
    ELSE IF (status \cap SDMMC_INTMASK_RESP_ERR) # {} THEN "InvalidResponce"
    ELSE NoError

process_command_response_err_crc_unflagged(c, status) ==
    IF (status \cap SDMMC_INTMASK_RTO) # {} THEN "Timeout"
    ELSE IF (status \cap SDMMC_INTMASK_RCRC) # {} THEN "InvalidCRC"
    ELSE IF (status \cap SDMMC_INTMASK_RESP_ERR) # {} THEN "InvalidResponce"
    ELSE NoError

\* the error classification of process_command_response
process_command_response_err(c, status) ==
    IF (status \cap SDMMC_INTMASK_RTO) # {} THEN "Timeout"
    ELSE IF has_flag(c, SCF_RSP_CRC) /\ (status \cap SDMMC_INTMASK_RCRC) # {}
    THEN "InvalidCRC"
    ELSE IF (status \cap SDMMC_INTMASK_RESP_ERR) # {} THEN "InvalidResponce"
    ELSE NoError

process_command_response_always_capture(s, status, resp) ==
    With(IF has_flag(s.cmd, SCF_RSP_136)
         THEN [s EXCEPT !.cmd.responce = resp, !.reads = @ + 4]
         ELSE [s EXCEPT !.cmd.responce = <<resp[1], 0, 0, 0>>, !.reads = @ + 1],
         LAMBDA s1 :
    With(process_command_response_err(s1.cmd, status), LAMBDA err :
    IF err # NoError
    THEN [s1 EXCEPT !.cmd.err = err,
                    !.m = IF s1.cmd.data THEN sdmmc_dma_stop(@) ELSE @]
    ELSE s1))

process_command_response(s, status, resp) ==
    With(IF has_flag(s.cmd, SCF_RSP_PRESENT)
         THEN IF has_flag(s.cmd, SCF_RSP_136)
              THEN [s EXCEPT !.cmd.responce = resp, !.reads = @ + 4]
              ELSE [s EXCEPT !.cmd.responce = <<resp[1], 0, 0, 0>>,
                             !.reads = @ + 1]
         ELSE s,
         LAMBDA s1 :
    With(process_command_response_err(s1.cmd, status), LAMBDA err :
    IF err # NoError
    THEN [s1 EXCEPT !.cmd.err = err,
                    !.m = IF s1.cmd.data THEN sdmmc_dma_stop(@) ELSE @]
    ELSE s1))

\* the error classification of process_data_status
process_data_status_err(c, status) ==
    IF (status \cap SDMMC_INTMASK_DTO) # {} THEN "Timeout"
    ELSE IF (status \cap SDMMC_INTMASK_DCRC) # {} THEN "InvalidCRC"
    ELSE IF (status \cap SDMMC_INTMASK_EBE) # {} /\ ~has_flag(c, SCF_CMD_READ)
    THEN "Timeout"
    ELSE "Fail"

process_data_status_no_fifo_reset(s, status) ==
    With(IF (status \cap SD_DATA_ERR_MASK) # {}
         THEN [s EXCEPT !.cmd.err = process_data_status_err(s.cmd, status)]
         ELSE s,
         LAMBDA s1 :
    IF s1.cmd.err # NoError /\ s1.cmd.data
    THEN [s1 EXCEPT !.m = sdmmc_dma_stop(@)]
    ELSE s1)

\* process_data_status
process_data_status(s, status) ==
    With(IF (status \cap SD_DATA_ERR_MASK) # {}
         THEN [s EXCEPT
                  !.cmd.err = process_data_status_err(s.cmd, status),
                  !.m = Wr(@, "ctrl", [@.regs EXCEPT !.ctrl = CTRL_FIFO_RESET])]
         ELSE s,
         LAMBDA s1 :
    IF s1.cmd.err # NoError /\ s1.cmd.data
    THEN [s1 EXCEPT !.m = sdmmc_dma_stop(@)]
    ELSE s1)

\* handle_voltage_switch_stage1
handle_voltage_switch_stage1(m, slot) == set_clk_always_on(m, slot, TRUE)

\* handle_voltage_switch_stage2, called as `.await.unwrap()`: an Err from
\* enable_clk_cmd11 panics in unwrap, an Ok reaches todo!(), which panics
handle_voltage_switch_stage2(s, slot, hw) ==
    [s EXCEPT !.m = enable_clk_cmd11(@, slot, FALSE, hw).m, !.panic = TRUE]

\* handle_voltage_switch_stage3
handle_voltage_switch_stage3(s, self_slot) ==
    [s EXCEPT !.m = set_clk_always_on(@, self_slot, TRUE)]

\* the arms of the `match state` in process_events
process_events_SendingCmd(s, orig_evt, resp) ==
    With(mask_check_and_clear(s.event.sdmmc_status, SD_CMD_ERR_MASK), LAMBDA a :
    With(IF a.ret
         THEN process_command_response(s, orig_evt.sdmmc_status, resp)
         ELSE s,
         LAMBDA s1 :
    With(mask_check_and_clear(a.state, SDMMC_INTMASK_CMD_DONE), LAMBDA b :
    With(IF b.ret
         THEN process_command_response(s1, orig_evt.sdmmc_status, resp)
         ELSE s1,
         LAMBDA s2 :
    [s2 EXCEPT
        !.event.sdmmc_status = b.state,
        !.next_state =
            IF ~b.ret THEN @
            ELSE IF s2.cmd.err # NoError THEN "Idle"
            ELSE IF ~s2.cmd.data THEN "Idle"
            ELSE "SendingData"]))))

process_events_SendingData(s, orig_evt) ==
    With(mask_check_and_clear(s.event.sdmmc_status, SD_DATA_ERR_MASK), LAMBDA a :
    With(IF a.ret
         THEN [process_data_status(s, orig_evt.sdmmc_status)
                  EXCEPT !.m = sdmmc_dma_stop(@)]
         ELSE s,
         LAMBDA s1 :
    With(mask_check_and_clear(s.event.dma_status, SD_DMA_DONE_MASK), LAMBDA b :
    [s1 EXCEPT
        !.event.sdmmc_status = a.state,
        !.event.dma_status = b.state,
        !.next_state =
            IF (orig_evt.sdmmc_status
                  \cap (SDMMC_INTMASK_SBE \cup SDMMC_INTMASK_DATA_OVER)) # {}
            THEN "Idle"
            ELSE IF b.ret THEN "Busy" ELSE @])))

process_events_Busy_backwards(s, orig_evt) ==
    With(mask_check_and_clear(s.event.sdmmc_status, SDMMC_INTMASK_DATA_OVER),
         LAMBDA a :
    With(IF a.ret THEN process_data_status(s, orig_evt.sdmmc_status) ELSE s,
         LAMBDA s1 :
    [s1 EXCEPT
        !.event.sdmmc_status = a.state,
        !.next_state = IF a.ret THEN "SendingData" ELSE @]))

process_events_Busy(s, orig_evt) ==
    With(mask_check_and_clear(s.event.sdmmc_status, SDMMC_INTMASK_DATA_OVER),
         LAMBDA a :
    With(IF a.ret THEN process_data_status(s, orig_evt.sdmmc_status) ELSE s,
         LAMBDA s1 :
    [s1 EXCEPT
        !.event.sdmmc_status = a.state,
        !.next_state = IF a.ret THEN "Idle" ELSE @]))

process_events_SendingVoltageSwitch(s, orig_evt, resp, slot, hw) ==
    With(mask_check_and_clear(s.event.sdmmc_status, SD_CMD_ERR_MASK), LAMBDA a :
    With(IF a.ret
         THEN [process_command_response(s, orig_evt.sdmmc_status, resp)
                  EXCEPT !.next_state = "Idle"]
         ELSE s,
         LAMBDA s1 :
    With(mask_check_and_clear(a.state, SDMMC_INTMASK_VOLT_SW), LAMBDA b :
    With(IF b.ret THEN handle_voltage_switch_stage2(s1, slot, hw) ELSE s1,
         LAMBDA s2 :
    [s2 EXCEPT
        !.event.sdmmc_status = b.state,
        !.next_state =
            IF ~b.ret THEN @
            ELSE IF s2.cmd.err # NoError THEN "Idle"
            ELSE "WaitingVoltageSwitch"]))))

process_events_WaitingVoltageSwitch(s, orig_evt, resp, slot) ==
    With(mask_check_and_clear(s.event.sdmmc_status, SD_CMD_ERR_MASK), LAMBDA a :
    With(IF a.ret
         THEN [process_command_response(s, orig_evt.sdmmc_status, resp)
                  EXCEPT !.next_state = "Idle"]
         ELSE s,
         LAMBDA s1 :
    With(mask_check_and_clear(a.state, SDMMC_INTMASK_VOLT_SW), LAMBDA b :
    With(IF b.ret THEN handle_voltage_switch_stage3(s1, slot) ELSE s1,
         LAMBDA s2 :
    [s2 EXCEPT
        !.event.sdmmc_status = b.state,
        !.next_state = IF b.ret THEN "Idle" ELSE @]))))

\* the `match state` of process_events
process_events_arm(s, orig_evt, resp, slot, hw) ==
    CASE s.state = "Idle" -> s
      [] s.state = "SendingCmd" -> process_events_SendingCmd(s, orig_evt, resp)
      [] s.state = "SendingData" -> process_events_SendingData(s, orig_evt)
      [] s.state = "Busy" -> process_events_Busy(s, orig_evt)
      [] s.state = "SendingVoltageSwitch" ->
            process_events_SendingVoltageSwitch(s, orig_evt, resp, slot, hw)
      [] s.state = "WaitingVoltageSwitch" ->
            process_events_WaitingVoltageSwitch(s, orig_evt, resp, slot)

process_events_single_pass(s, orig_evt, resp, slot, hw) ==
    IF s.next_state = s.state \/ s.panic
    THEN s
    ELSE With(process_events_arm([s EXCEPT !.state = s.next_state],
                                 orig_evt, resp, slot, hw),
              LAMBDA s1 : [s1 EXCEPT !.visited = Append(@, s1.state),
                                     !.state = s1.next_state])

\* the `while next_state != state` loop of process_events
RECURSIVE process_events_loop(_, _, _, _, _)
process_events_loop(s, orig_evt, resp, slot, hw) ==
    IF s.next_state = s.state \/ s.panic
    THEN s
    ELSE process_events_loop(
             With(process_events_arm([s EXCEPT !.state = s.next_state],
                                     orig_evt, resp, slot, hw),
                  LAMBDA s1 : [s1 EXCEPT !.visited = Append(@, s1.state)]),
             orig_evt, resp, slot, hw)

\* process_events(slot, cmd, pstate, event, unhandled): the result's `state`
\* is written to *pstate and its `event` to *unhandled
process_events(m, slot, c, pstate, event, resp, hw) ==
    process_events_loop(
        [cmd |-> c, m |-> m, reads |-> 0, panic |-> FALSE, event |-> event,
         state |-> "None", next_state |-> pstate, visited |-> <<>>],
        event, resp, slot, hw)

----------------------------------------------------------------------------
(* Inputs explored *)

\* controller status bits the hardware raises (lower 16 bits of MINTSTS)
SdBits ==
    SD_CMD_ERR_MASK \cup SDMMC_INTMASK_CMD_DONE \cup SDMMC_INTMASK_DATA_OVER
        \cup SD_DATA_ERR_MASK \cup SDMMC_INTMASK_CD

\* DMA status bits the hardware raises (IDSTS)
DmaBits ==
    SDMMC_IDMAC_INTMASK_RI \cup SDMMC_IDMAC_INTMASK_TI \cup SDMMC_IDMAC_INTMASK_NI

\* the (pending, dma_pending) pairs with at most k bits set in all, which one
\* handler invocation may read from the two status registers
RECURSIVE EventValues(_)
EventValues(k) ==
    IF k = 0 THEN {NoEvent}
    ELSE LET P == EventValues(k - 1)
         IN  P \cup {[e EXCEPT !.sdmmc_status = @ \cup {b}] : e \in P, b \in SdBits}
               \cup {[e EXCEPT !.dma_status = @ \cup {b}] : e \in P, b \in DmaBits}

Min(a, b) == IF a < b THEN a ELSE b

\* descriptors submitted to do_transaction: the commands the driver builds
\* (cmd_go_idle_state, cmd_send_if_cond, cmd_read_ocr, ...), the voltage
\* switch, and data commands with well-formed and ill-formed sizes
TxPlain ==
    {[SdmmcCmd_default EXCEPT !.opcode = MMC_GO_IDLE_STATE, !.flags = SCF_RSP_R0],
     [SdmmcCmd_default EXCEPT !.opcode = SD_SWITCH_VOLTAGE, !.flags = SCF_RSP_R1]}
    \cup
    {[SdmmcCmd_default EXCEPT !.opcode = SD_SEND_IF_COND, !.flags = fl] :
        fl \in {SCF_RSP_PRESENT, SCF_RSP_R1, SCF_RSP_R2,
                SCF_RSP_R1 \cup SCF_WAIT_BUSY}}

TxSizes == {<<512, 512>>, <<0, 512>>, <<6, 2>>, <<512, 500>>, <<512, 0>>}

TxData ==
    {[SdmmcCmd_default EXCEPT !.opcode = MMC_READ_BLOCK_SINGLE,
                              !.flags = SCF_RSP_R1 \cup SCF_CMD_READ,
                              !.data = TRUE,
                              !.datalen = sz[1], !.blklen = sz[2]] :
        sz \in TxSizes}
    \cup
    {[SdmmcCmd_default EXCEPT !.opcode = op, !.flags = fl, !.data = TRUE,
                              !.datalen = 512, !.blklen = 512] :
        op \in {MMC_WRITE_BLOCK_SINGLE},
        fl \in {SCF_RSP_R1, SCF_RSP_R1 \cup SCF_WAIT_BUSY}}

TxDescriptors == TxPlain \cup TxData

\* hardware inputs of one call: card-detect and write-protect lines, and
\* which cmd_taken wait (if any) runs out of time
HwInputs(nwaits) ==
    {h \in [cd : SUBSET {0, 1}, wp : SUBSET {0, 1}, fail : 0..nwaits] :
        Cardinality(h.cd) + Cardinality(h.wp) + (IF h.fail = 0 THEN 0 ELSE 1)
            <= MaxHwFaults}

NoFault == [cd |-> {}, wp |-> {}, fail |-> 0]

\* before the first handler invocation: nothing read, nothing written
NoIsr == [pending |-> {}, dma_pending |-> {}, rintsts |-> {}, idsts |-> {}]

\* status bits the hardware sets in RINTSTS and in IDSTS in the runs that
\* follow the handler step by step
RaceSdBits ==
    SDMMC_INTMASK_CMD_DONE \cup SDMMC_INTMASK_DATA_OVER \cup SDMMC_INTMASK_CD

RaceDmaBits == SDMMC_IDMAC_INTMASK_RI \cup SDMMC_IDMAC_INTMASK_TI

\* after Sdmmc::init: RINTSTS and IDSTS clear, the handler not running, no
\* bit set by the hardware, none received by the consumer
NoIntr ==
    [rintsts |-> {}, idsts |-> {}, hpc |-> "idle", late |-> {},
     raised_sd |-> [b \in RaceSdBits |-> 0],
     raised_dma |-> [b \in RaceDmaBits |-> 0],
     got_sd |-> [b \in RaceSdBits |-> 0],
     got_dma |-> [b \in RaceDmaBits |-> 0]]

\* outside cmd_send_op_cond
NoOpCond ==
    [ocr |-> {}, ocrp |-> {}, is_mmc |-> FALSE, attempts |-> 0, err_cnt |-> 0,
     cmd |-> [opcode |-> 0, arg |-> {}, flags |-> {}],
     last |-> [ret |-> "Ok", r0 |-> {}], res |-> "Ok"]

\* outside wait_for_busy_cleared
NoBusyWait == [polls |-> 0, yields |-> 0, busy_for |-> 0]

\* outside Sdmmc::reset
NoReset == [elapsed_ms |-> 0, yield_delay_ms |-> 0]

HwRespValues == {<<1, 2, 3, 4>>}

SelfSlot == "Slot1"   \* SdmmcCard.slot, set in SdmmcCard::new and never changed

----------------------------------------------------------------------------
(* The consuming task: do_transaction *)

Init ==
    /\ pc = "ready"
    /\ cmd = SdmmcCmd_default
    /\ state = "Idle"
    /\ unhandled = NoEvent
    /\ ret = "Ok"
    /\ freq_khz = 20000
    /\ regs = RegsAfterInit
    /\ log = <<>>
    /\ EVENT_QUEUE = <<>>
    /\ raised = 0
    /\ hw_resp = <<0, 0, 0, 0>>
    /\ buf = "caller"
    /\ trail = <<>>
    /\ visited = <<>>
    /\ resp_reads = 0
    /\ req_khz = 20000
    /\ hw_cmd = SdmmcHwCmd_default
    /\ txs = 0
    /\ cur_slot = SelfSlot
    /\ lines = NoFault
    /\ isr = NoIsr
    /\ rcvd = NoEvent
    /\ reset_locals = NoReset
    /\ busy_wait = NoBusyWait
    /\ op_cond = NoOpCond
    /\ intr = NoIntr
    /\ wait_ticks = 0

do_transaction_outcome(m, frq, hc, how, res) ==
    [m |-> m, freq |-> frq, hw_cmd |-> hc, how |-> how, res |-> res]

\* do_transaction from its head to the first handle_event: the result says
\* whether the call goes on to the event loop, returns early or panics;
\* hc0 is the command word left from the call before
do_transaction_head(c, r, f, hw, hc0) ==
    With(set_card_clk(Machine(r, <<>>, 0), SelfSlot, f, hw), LAMBDA k :
    IF k.res = "panic"
    THEN do_transaction_outcome(k.m, k.freq, hc0, "panic", "Ok")
    ELSE IF k.res # "Ok"
    THEN do_transaction_outcome(k.m, k.freq, hc0, "return", k.res)
    ELSE
    With(IF c.opcode = SD_SWITCH_VOLTAGE
         THEN handle_voltage_switch_stage1(k.m, SelfSlot)
         ELSE k.m,
         LAMBDA m1 :
    IF make_hw_cmd_panics(c)
    THEN do_transaction_outcome(m1, k.freq, hc0, "panic", "Ok")
    ELSE IF c.data /\ c.datalen >= 4 /\ c.datalen % 4 # 0
    THEN do_transaction_outcome(m1, k.freq, make_hw_cmd(c), "return", "InvalidSize")
    ELSE
    With(start_cmd(IF c.data THEN dma_prepare(m1, c.datalen, c.blklen) ELSE m1,
                   "Slot1", make_hw_cmd(c), c.arg, hw),
         LAMBDA st :
    do_transaction_outcome(st.m, k.freq, make_hw_cmd(c),
                           IF st.res # "Ok" THEN "return" ELSE "events",
                           st.res))))

\* do_transaction from the end of the event loop to its return: the
\* post-command busy wait and the drain of the DMA receive buffer.
\* busy_cleared is what wait_for_busy_cleared returns.
do_transaction_tail_ret(c, r, busy_cleared) ==
    IF r = "Ok" /\ has_flag(c, SCF_WAIT_BUSY) /\ ~busy_cleared
    THEN "Timeout" ELSE r

do_transaction_tail_buf(c, b) == IF c.data THEN "dma_rx" ELSE b

\* do_transaction from its entry to the start of its event loop (or to its
\* early return), for a descriptor of descs and hardware inputs of hws, as
\* one of at most maxtx submissions of the run
Submit(descs, hws, maxtx) ==
    /\ pc \in {"ready", "returned"}
    /\ txs < maxtx
    /\ txs' = txs + 1
    /\ \E c \in descs, hw \in hws, resp \in HwRespValues :
       \E h \in {do_transaction_head(c, regs, freq_khz, hw, hw_cmd)} :
            /\ regs' = h.m.regs
            /\ log' = h.m.log
            /\ freq_khz' = h.freq
            /\ req_khz' = freq_khz
            /\ hw_cmd' = h.hw_cmd
            /\ hw_resp' = resp
            /\ lines' = hw
            /\ ret' = h.res
            /\ trail' = <<>>
            /\ visited' = <<>>
            /\ resp_reads' = 0
            /\ unhandled' = NoEvent
            /\ buf' = "caller"
            /\ IF h.how = "events"
               THEN /\ pc' = "events"
                    /\ cmd' = [c EXCEPT !.err = NoError]
                    /\ state' = IF c.opcode = SD_SWITCH_VOLTAGE
                                THEN "SendingVoltageSwitch" ELSE "SendingCmd"
               ELSE /\ pc' = IF h.how = "panic" THEN "panicked" ELSE "returned"
                    /\ cmd' = c
                    /\ state' = "Idle"
    /\ UNCHANGED <<EVENT_QUEUE, raised, cur_slot, isr, rcvd, reset_locals, busy_wait,
                   op_cond, intr, wait_ticks>>

DoTransaction == Submit(TxDescriptors, HwInputs(8), MaxTx)

merge_unhandled_dropped(event, un) == event

\* `event.sdmmc_status |= unhandled.sdmmc_status` and the same for dma_status
merge_unhandled(event, un) ==
    [sdmmc_status |-> event.sdmmc_status \cup un.sdmmc_status,
     dma_status |-> event.dma_status \cup un.dma_status]

\* one iteration of `while state != State::Idle && ret.is_ok()` whose
\* wait_for_event receives an Event, followed by the rest of do_transaction
\* when the loop ends with it
HandleEventReceived(keep_trail) ==
    /\ pc = "events"
    /\ EVENT_QUEUE # <<>>
    /\ \E hw \in (IF state \in {"SendingVoltageSwitch", "WaitingVoltageSwitch"}
                 THEN HwInputs(1) ELSE {NoFault}),
          busy_cleared \in (IF has_flag(cmd, SCF_WAIT_BUSY)
                           THEN BOOLEAN ELSE {TRUE}) :
       \E p \in {process_events(Machine(regs, log, 0), SelfSlot, cmd, state,
                                merge_unhandled(Head(EVENT_QUEUE), unhandled),
                                hw_resp, hw)} :
            /\ EVENT_QUEUE' = Tail(EVENT_QUEUE)
            /\ rcvd' = Head(EVENT_QUEUE)
            /\ lines' = hw
            /\ regs' = p.m.regs
            /\ log' = p.m.log
            /\ cmd' = p.cmd
            /\ visited' = p.visited
            /\ resp_reads' = resp_reads + p.reads
            /\ IF p.panic
               THEN /\ pc' = "panicked"
                    /\ UNCHANGED <<state, unhandled, trail, ret, buf>>
               ELSE /\ state' = p.state
                    /\ unhandled' = p.event
                    /\ trail' = IF keep_trail THEN Append(trail, p.state) ELSE trail
                    /\ IF p.state = "Idle"
                       THEN /\ pc' = "returned"
                            /\ ret' = do_transaction_tail_ret(p.cmd, "Ok", busy_cleared)
                            /\ buf' = do_transaction_tail_buf(p.cmd, buf)
                       ELSE /\ pc' = "events"
                            /\ UNCHANGED <<ret, buf>>
    /\ wait_ticks' = 0
    /\ UNCHANGED <<freq_khz, raised, hw_resp, req_khz, hw_cmd, txs, cur_slot,
                   isr, reset_locals, busy_wait,
                   op_cond, intr>>

HandleEvent == HandleEventReceived(TRUE)

handle_event_err_no_stop(m) == m

\* handle_event, the Err arm of the wait: self.sdmmc.dma_stop() before Err(err)
handle_event_err(m) == sdmmc_dma_stop(m)

\* the iteration whose wait_for_event times out: handle_event stops DMA and
\* returns the error, the loop ends and do_transaction runs to its return
HandleEventTimeout ==
    /\ pc = "events"
    /\ EVENT_QUEUE = <<>>
    /\ \E m \in {handle_event_err(Machine(regs, log, 0))} :
           /\ regs' = m.regs
           /\ log' = m.log
    /\ ret' = do_transaction_tail_ret(cmd, "Timeout", FALSE)
    /\ buf' = do_transaction_tail_buf(cmd, buf)
    /\ pc' = "returned"
    /\ UNCHANGED <<cmd, state, unhandled, freq_khz, EVENT_QUEUE, raised, hw_resp,
                   trail, visited, resp_reads, req_khz, hw_cmd, txs, cur_slot,
                   lines, isr, rcvd, reset_locals, busy_wait,
                   op_cond, intr, wait_ticks>>

----------------------------------------------------------------------------
(* The interrupt handler (src/src/lib.rs, inter::handler) *)

\* the lower 16 bits of a status word (`& 0xFFFF`)
Low16 == 0..15

try_send_front(q, e) ==
    IF Len(q) >= QUEUE_CAPACITY
    THEN [ok |-> FALSE, queue |-> q]
    ELSE [ok |-> TRUE, queue |-> <<e>> \o q]

try_send_overwrite(q, e) ==
    IF Len(q) >= QUEUE_CAPACITY
    THEN [ok |-> TRUE, queue |-> Append(Tail(q), e)]
    ELSE [ok |-> TRUE, queue |-> Append(q, e)]

\* EVENT_QUEUE.try_send(event): an Err on a full channel, which keeps its
\* content; otherwise the Event goes to the back of the channel
try_send(q, e) ==
    IF Len(q) >= QUEUE_CAPACITY
    THEN [ok |-> FALSE, queue |-> q]
    ELSE [ok |-> TRUE, queue |-> Append(q, e)]

\* one invocation of inter::handler, with mintsts and idsts the values read
\* from MINTSTS and IDSTS: both are written back (to RINTSTS and IDSTS), and
\* try_send(..).unwrap() panics on a full queue.  Sdmmc::init leaves
\* sdio_int_mask zero, so MINTSTS never shows a card interrupt and the
\* sdio_pending branch is not taken.
handler(mintsts, idsts) ==
    \E pending \in {mintsts \cap Low16}, dma_pending \in {idsts} :
        /\ isr' = [pending |-> pending, dma_pending |-> dma_pending,
                   rintsts |-> pending, idsts |-> dma_pending]
        /\ IF pending # {} \/ dma_pending # {}
           THEN \E sent \in {try_send(EVENT_QUEUE,
                                      [sdmmc_status |-> pending,
                                       dma_status |-> dma_pending])} :
                    IF sent.ok
                    THEN EVENT_QUEUE' = sent.queue /\ UNCHANGED pc
                    ELSE pc' = "panicked" /\ UNCHANGED EVENT_QUEUE
           ELSE UNCHANGED <<EVENT_QUEUE, pc>>

\* the hardware raises status bits while a transaction is under way (or
\* before the next one) and the interrupt fires
Interrupt(maxtx) ==
    /\ pc = "events" \/ (pc = "returned" /\ txs < maxtx)
    /\ Len(EVENT_QUEUE) < MaxQueue
    /\ \E e \in EventValues(Min(MaxEventBits, MaxRunBits - raised)) :
            /\ raised' = raised + Cardinality(e.sdmmc_status)
                                + Cardinality(e.dma_status)
            /\ handler(e.sdmmc_status, e.dma_status)
    /\ UNCHANGED <<cmd, state, unhandled, ret, freq_khz, regs, log, hw_resp,
                   buf, trail, visited, resp_reads, req_khz, hw_cmd, txs,
                   cur_slot, lines, rcvd, reset_locals, busy_wait,
                   op_cond, intr, wait_ticks>>

Handler == Interrupt(MaxTx)

Next == DoTransaction \/ HandleEvent \/ HandleEventTimeout \/ Handler

Spec == Init /\ [][Next]_vars

----------------------------------------------------------------------------
(* Transactions back to back: the card submits a second command after the *)
(* first has returned, on the same controller and the same EVENT_QUEUE.   *)

\* the descriptors submitted back to back: a command without data and a
\* single-block read
SeqDescriptors ==
    {[SdmmcCmd_default EXCEPT !.opcode = MMC_GO_IDLE_STATE, !.flags = SCF_RSP_R0],
     [SdmmcCmd_default EXCEPT !.opcode = MMC_READ_BLOCK_SINGLE,
                              !.flags = SCF_RSP_R1 \cup SCF_CMD_READ,
                              !.data = TRUE, !.datalen = 512, !.blklen = 512]}

DoTransactionSeq == Submit(SeqDescriptors, {NoFault}, MaxSeqTx)

HandlerSeq == Interrupt(MaxSeqTx)

NextSeq == DoTransactionSeq \/ HandleEvent \/ HandleEventTimeout \/ HandlerSeq

SpecSeq == Init /\ [][NextSeq]_vars

----------------------------------------------------------------------------
(* make_hw_cmd on its own: a caller builds a descriptor and compiles it *)

CmdFlagBits == SCF_CMD_READ \cup SCF_RSP_136 \cup SCF_RSP_CRC \cup SCF_RSP_PRESENT

CmdSizes == {<<0, 0>>, <<0, 512>>, <<512, 512>>, <<1024, 512>>, <<512, 500>>}

CmdArgs == {0, 1}

CmdResponces == {<<0, 0, 0, 0>>, <<1, 2, 3, 4>>}

CmdDescriptors ==
    {[SdmmcCmd_default EXCEPT !.opcode = op, !.flags = fl, !.data = d,
                              !.datalen = sz[1], !.blklen = sz[2],
                              !.arg = a, !.responce = r] :
        op \in 0..MaxOpcode, fl \in SUBSET CmdFlagBits, d \in BOOLEAN,
        sz \in CmdSizes, a \in CmdArgs, r \in CmdResponces}

InitCmd ==
    /\ pc = "hw_in"
    /\ cmd \in CmdDescriptors
    /\ state = "Idle"
    /\ unhandled = NoEvent
    /\ ret = "Ok"
    /\ freq_khz = 20000
    /\ regs = RegsAfterInit
    /\ log = <<>>
    /\ EVENT_QUEUE = <<>>
    /\ raised = 0
    /\ hw_resp = <<0, 0, 0, 0>>
    /\ buf = "caller"
    /\ trail = <<>>
    /\ visited = <<>>
    /\ resp_reads = 0
    /\ req_khz = 20000
    /\ hw_cmd = SdmmcHwCmd_default
    /\ txs = 0
    /\ cur_slot = SelfSlot
    /\ lines = NoFault
    /\ isr = NoIsr
    /\ rcvd = NoEvent
    /\ reset_locals = NoReset
    /\ busy_wait = NoBusyWait
    /\ op_cond = NoOpCond
    /\ intr = NoIntr
    /\ wait_ticks = 0

\* SdmmcCmd::make_hw_cmd called on the descriptor
MakeHwCmd ==
    /\ pc = "hw_in"
    /\ IF make_hw_cmd_panics(cmd)
       THEN pc' = "panicked" /\ UNCHANGED hw_cmd
       ELSE pc' = "hw_out" /\ hw_cmd' = make_hw_cmd(cmd)
    /\ UNCHANGED <<cmd, state, unhandled, ret, freq_khz, regs, log, EVENT_QUEUE,
                   raised, hw_resp, buf, trail, visited, resp_reads, req_khz,
                   txs, cur_slot, lines, isr, rcvd, reset_locals, busy_wait,
                   op_cond, intr, wait_ticks>>

NextCmd == MakeHwCmd

SpecCmd == InitCmd /\ [][NextCmd]_vars

----------------------------------------------------------------------------
(* set_card_clk on its own: a caller asks a slot for a frequency *)

InitClk ==
    /\ pc = "clk_in"
    /\ freq_khz \in 1..MaxFreqKhz
    /\ req_khz = freq_khz
    /\ cur_slot \in Slots
    /\ cmd = SdmmcCmd_default
    /\ state = "Idle"
    /\ unhandled = NoEvent
    /\ ret = "Ok"
    /\ regs = RegsAfterInit
    /\ log = <<>>
    /\ EVENT_QUEUE = <<>>
    /\ raised = 0
    /\ hw_resp = <<0, 0, 0, 0>>
    /\ buf = "caller"
    /\ trail = <<>>
    /\ visited = <<>>
    /\ resp_reads = 0
    /\ hw_cmd = SdmmcHwCmd_default
    /\ txs = 0
    /\ lines = NoFault
    /\ isr = NoIsr
    /\ rcvd = NoEvent
    /\ reset_locals = NoReset
    /\ busy_wait = NoBusyWait
    /\ op_cond = NoOpCond
    /\ intr = NoIntr
    /\ wait_ticks = 0

\* Sdmmc::set_card_clk(slot, &mut freq_khz)
SetCardClk ==
    /\ pc = "clk_in"
    /\ \E hw \in HwInputs(6) :
       \E k \in {set_card_clk(Machine(regs, <<>>, 0), cur_slot, freq_khz, hw)} :
            /\ regs' = k.m.regs
            /\ log' = k.m.log
            /\ freq_khz' = k.freq
            /\ lines' = hw
            /\ IF k.res = "panic"
               THEN pc' = "panicked" /\ UNCHANGED ret
               ELSE pc' = "clk_out" /\ ret' = k.res
    /\ UNCHANGED <<cmd, state, unhandled, EVENT_QUEUE, raised, hw_resp, buf,
                   trail, visited, resp_reads, req_khz, hw_cmd, txs, cur_slot,
                   isr, rcvd, reset_locals, busy_wait,
                   op_cond, intr, wait_ticks>>

NextClk == SetCardClk

SpecClk == InitClk /\ [][NextClk]_vars

----------------------------------------------------------------------------
(* start_cmd on its own: a caller submits a command word to a slot *)

\* Slot::bit: the mask of the slot's line in CDETECT and WRTPRT
Slot_bit(slot) == IF slot = "Slot0" THEN {0} ELSE {1}

StartDescriptors == {c \in TxDescriptors : ~make_hw_cmd_panics(c)}

InitStart ==
    /\ pc = "start_in"
    /\ cmd \in StartDescriptors
    /\ cur_slot \in Slots
    /\ state = "Idle"
    /\ unhandled = NoEvent
    /\ ret = "Ok"
    /\ freq_khz = 20000
    /\ regs = RegsAfterInit
    /\ log = <<>>
    /\ EVENT_QUEUE = <<>>
    /\ raised = 0
    /\ hw_resp = <<0, 0, 0, 0>>
    /\ buf = "caller"
    /\ trail = <<>>
    /\ visited = <<>>
    /\ resp_reads = 0
    /\ req_khz = 20000
    /\ hw_cmd = SdmmcHwCmd_default
    /\ txs = 0
    /\ lines = NoFault
    /\ isr = NoIsr
    /\ rcvd = NoEvent
    /\ reset_locals = NoReset
    /\ busy_wait = NoBusyWait
    /\ op_cond = NoOpCond
    /\ intr = NoIntr
    /\ wait_ticks = 0

\* Sdmmc::start_cmd(slot, cmd.make_hw_cmd(), cmd.arg)
StartCmd ==
    /\ pc = "start_in"
    /\ \E hw \in HwInputs(2) :
       \E st \in {start_cmd(Machine(regs, <<>>, 0), cur_slot, make_hw_cmd(cmd),
                            cmd.arg, hw)} :
            /\ regs' = st.m.regs
            /\ log' = st.m.log
            /\ ret' = st.res
            /\ lines' = hw
    /\ hw_cmd' = make_hw_cmd(cmd)
    /\ pc' = "start_out"
    /\ UNCHANGED <<cmd, state, unhandled, freq_khz, EVENT_QUEUE, raised, hw_resp,
                   buf, trail, visited, resp_reads, req_khz, txs, cur_slot,
                   isr, rcvd, reset_locals, busy_wait,
                   op_cond, intr, wait_ticks>>

\* Sdmmc::clk_update_cmd(slot, is_cmd11)
ClkUpdateCmd ==
    /\ pc = "start_in"
    /\ \E hw \in HwInputs(2), is_cmd11 \in BOOLEAN :
       \E st \in {clk_update_cmd(Machine(regs, <<>>, 0), cur_slot, is_cmd11, hw)} :
            /\ regs' = st.m.regs
            /\ log' = st.m.log
            /\ ret' = st.res
            /\ lines' = hw
            /\ hw_cmd' = clk_update_word(cur_slot, is_cmd11)
    /\ pc' = "clk_upd_out"
    /\ UNCHANGED <<cmd, state, unhandled, freq_khz, EVENT_QUEUE, raised, hw_resp,
                   buf, trail, visited, resp_reads, req_khz, txs, cur_slot, isr,
                   rcvd, reset_locals, busy_wait,
                   op_cond, intr, wait_ticks>>

NextStart == StartCmd \/ ClkUpdateCmd

SpecStart == InitStart /\ [][NextStart]_vars

----------------------------------------------------------------------------
(* Sdmmc::init and Sdmmc::reset.  reset_locals holds the locals of reset:   *)
(* elapsed_ms is Instant::now() - t0 and yield_delay_ms the current yield   *)
(* threshold.  The clock advances by TickMs or 3 * TickMs between two       *)
(* readings; the hardware clears the three self-clearing reset bits one at  *)
(* a time, or never.                                                        *)

CTRL_CONTROLLER_RESET == {0}

ResetBits == CTRL_CONTROLLER_RESET \cup CTRL_FIFO_RESET \cup CTRL_DMA_RESET

\* writes to registers whose contents the driver never reads back
WrOther(m, names) == [m EXCEPT !.log = m.log \o names]

\* init up to the call of reset: DPORT reset and clock enable, card reset
\* lines, card clocks of both slots, host divider 2
init_head(m) ==
    With(WrOther(m, <<"wifi_rst_en", "wifi_rst_en", "peri_rst_en",
                      "peri_clk_en", "peri_rst_en", "rst_n">>), LAMBDA m1 :
    With(Wr(m1, "clkena",
            [m1.regs EXCEPT !.cclk_enable = {0, 1}, !.lp_enable = {}]),
         LAMBDA m2 :
    set_clk_div(m2, 2)))

\* reset: the write that requests the three resets
reset_request(m) == Wr(m, "ctrl", [m.regs EXCEPT !.ctrl = ResetBits])

\* reset: the loop condition is false.  The three reads of ctrl see the same
\* thing as one read, since the hardware only ever clears these bits.
reset_done(r) == (r.ctrl \cap ResetBits) = {}

reset_timed_out_never(elapsed_ms) == FALSE

\* reset: t1 - t0 > Duration::from_millis(RESET_TIMEOUT_MS)
reset_timed_out(elapsed_ms) == elapsed_ms > RESET_TIMEOUT_MS

\* reset: one evaluation of the loop condition and, if it holds, one pass
\* through the loop body
reset_poll(r, loc) ==
    IF reset_done(r) THEN [res |-> "Ok", loc |-> loc]
    ELSE IF reset_timed_out(loc.elapsed_ms) THEN [res |-> "Timeout", loc |-> loc]
    ELSE IF loc.elapsed_ms > loc.yield_delay_ms
         THEN [res |-> "Loop",
               loc |-> [loc EXCEPT !.yield_delay_ms = loc.yield_delay_ms * 2]]
    ELSE [res |-> "Loop", loc |-> loc]

\* Sdmmc::dma_init; the software-reset bit of bmod clears itself
dma_init(m) ==
    With(Wr(m, "ctrl", [m.regs EXCEPT !.ctrl = @ \cup CTRL_DMA_ENABLE]),
         LAMBDA m1 :
    With(Wr(m1, "bmod", [m1.regs EXCEPT !.bmod = {}]), LAMBDA m2 :
    WrOther(Wr(m2, "bmod", [m2.regs EXCEPT !.bmod = {}]), <<"idinten">>)))

\* init after reset returned Ok, up to dma_init: interrupts cleared and
\* masked, handler bound, interrupts unmasked and enabled
init_enable_interrupts(m) ==
    With(WrOther(m, <<"rintsts", "intmask">>), LAMBDA m1 :
    With(Wr(m1, "ctrl", [m1.regs EXCEPT !.ctrl = {}]), LAMBDA m2 :
    With(WrOther(m2, <<"inter::bind", "intmask", "idinten">>), LAMBDA m3 :
    WrOther(Wr(m3, "ctrl", [m3.regs EXCEPT !.ctrl = CTRL_INT_ENABLE]),
            <<"cardthrctl">>))))

InitInit ==
    /\ pc = "init_in"
    /\ cmd = SdmmcCmd_default
    /\ state = "Idle"
    /\ unhandled = NoEvent
    /\ ret = "Ok"
    /\ freq_khz = 20000
    /\ regs = ResetValue
    /\ log = <<>>
    /\ EVENT_QUEUE = <<>>
    /\ raised = 0
    /\ hw_resp = <<0, 0, 0, 0>>
    /\ buf = "caller"
    /\ trail = <<>>
    /\ visited = <<>>
    /\ resp_reads = 0
    /\ req_khz = 20000
    /\ hw_cmd = SdmmcHwCmd_default
    /\ txs = 0
    /\ cur_slot = SelfSlot
    /\ lines = NoFault
    /\ isr = NoIsr
    /\ rcvd = NoEvent
    /\ reset_locals = NoReset
    /\ busy_wait = NoBusyWait
    /\ op_cond = NoOpCond
    /\ intr = NoIntr
    /\ wait_ticks = 0

\* init from its first line to the first evaluation of reset's loop condition
InitBegin ==
    /\ pc = "init_in"
    /\ \E m \in {reset_request(init_head(Machine(regs, log, 0)))} :
            regs' = m.regs /\ log' = m.log
    /\ reset_locals' = [elapsed_ms |-> 0, yield_delay_ms |-> 100]
    /\ pc' = "reset_loop"
    /\ UNCHANGED <<cmd, state, unhandled, ret, freq_khz, EVENT_QUEUE, raised,
                   hw_resp, buf, trail, visited, resp_reads, req_khz, hw_cmd,
                   txs, cur_slot, lines, isr, rcvd, busy_wait,
                   op_cond, intr, wait_ticks>>

\* the hardware finishes one of the requested resets
HwResetClears ==
    /\ pc = "reset_loop"
    /\ \E b \in regs.ctrl \cap ResetBits :
            regs' = [regs EXCEPT !.ctrl = @ \ {b}]
    /\ UNCHANGED <<pc, cmd, state, unhandled, ret, freq_khz, log, EVENT_QUEUE,
                   raised, hw_resp, buf, trail, visited, resp_reads, req_khz,
                   hw_cmd, txs, cur_slot, lines, isr, rcvd, reset_locals, busy_wait,
                   op_cond, intr, wait_ticks>>

\* the time driver's clock advances; once the timeout has passed, how far it
\* advances no longer matters
Tick ==
    /\ pc = "reset_loop"
    /\ ~reset_timed_out(reset_locals.elapsed_ms)
    /\ \E d \in {TickMs, 3 * TickMs} :
            reset_locals' = [reset_locals EXCEPT !.elapsed_ms = @ + d]
    /\ UNCHANGED <<pc, cmd, state, unhandled, ret, freq_khz, regs, log,
                   EVENT_QUEUE, raised, hw_resp, buf, trail, visited,
                   resp_reads, req_khz, hw_cmd, txs, cur_slot, lines, isr,
                   rcvd, busy_wait,
                   op_cond, intr, wait_ticks>>

\* one pass of reset's loop; on Ok the rest of init runs, on Timeout the `?`
\* returns from init
ResetPoll ==
    /\ pc = "reset_loop"
    /\ \E p \in {reset_poll(regs, reset_locals)} :
            /\ reset_locals' = p.loc
            /\ IF p.res = "Ok"
               THEN \E m1 \in {init_enable_interrupts(Machine(regs, log, 0))} :
                    \E m \in {dma_init(m1)} :
                        /\ regs' = m.regs /\ log' = m.log
                        /\ EVENT_QUEUE' = <<>>
                        /\ ret' = "Ok" /\ pc' = "init_done"
               ELSE IF p.res = "Timeout"
               THEN /\ ret' = "Timeout" /\ pc' = "init_failed"
                    /\ UNCHANGED <<regs, log, EVENT_QUEUE>>
               ELSE UNCHANGED <<pc, ret, regs, log, EVENT_QUEUE>>
    /\ UNCHANGED <<cmd, state, unhandled, freq_khz, raised, hw_resp, buf,
                   trail, visited, resp_reads, req_khz, hw_cmd, txs, cur_slot,
                   lines, isr, rcvd, busy_wait,
                   op_cond, intr, wait_ticks>>

NextInit == InitBegin \/ HwResetClears \/ Tick \/ ResetPoll

\* init is called, the executor keeps polling its task (reset spins, or
\* yields with yield_now, which wakes the task at once), and the clock keeps
\* advancing
SpecInit ==
    /\ InitInit /\ [][NextInit]_vars
    /\ WF_vars(InitBegin) /\ WF_vars(ResetPoll) /\ WF_vars(Tick)

----------------------------------------------------------------------------
(* The interrupt handler against a consumer that may stall: the handler     *)
(* fires whenever the hardware raises a status bit, the consumer receives   *)
(* with Sdmmc::wait_for_event when it gets to run.                          *)

\* what one invocation reads from MINTSTS and IDSTS: nothing (a spurious
\* interrupt), command-done, or a DMA normal-interrupt summary
IsrReads(dma_left) ==
    {NoEvent, [NoEvent EXCEPT !.sdmmc_status = SDMMC_INTMASK_CMD_DONE]}
        \cup (IF dma_left > 0
              THEN {[NoEvent EXCEPT !.dma_status = SDMMC_IDMAC_INTMASK_NI]}
              ELSE {})

HandlerIsr ==
    /\ pc = "ready"
    /\ \E e \in IsrReads(MaxDmaIrqs - raised) :
            /\ raised' = raised + Cardinality(e.dma_status)
            /\ handler(e.sdmmc_status, e.dma_status)
    /\ UNCHANGED <<cmd, state, unhandled, ret, freq_khz, regs, log, hw_resp,
                   buf, trail, visited, resp_reads, req_khz, hw_cmd, txs,
                   cur_slot, lines, rcvd, reset_locals, busy_wait,
                   op_cond, intr, wait_ticks>>

\* Sdmmc::wait_for_event: EVENT_QUEUE.receive().await
WaitForEvent ==
    /\ pc = "ready"
    /\ EVENT_QUEUE # <<>>
    /\ rcvd' = Head(EVENT_QUEUE)
    /\ EVENT_QUEUE' = Tail(EVENT_QUEUE)
    /\ UNCHANGED <<pc, cmd, state, unhandled, ret, freq_khz, regs, log, raised,
                   hw_resp, buf, trail, visited, resp_reads, req_khz, hw_cmd,
                   txs, cur_slot, lines, isr, reset_locals, busy_wait,
                   op_cond, intr, wait_ticks>>

NextIsr == HandlerIsr \/ WaitForEvent

SpecIsr == Init /\ [][NextIsr]_vars

----------------------------------------------------------------------------
(* The interrupt handler step by step, against hardware that sets status    *)
(* bits between any two of its register accesses.  intr.rintsts and         *)
(* intr.idsts are the registers; isr holds the handler's locals; raised_sd, *)
(* raised_dma count the times the hardware set a clear bit, got_sd, got_dma *)
(* the Events with the bit that the consumer received; intr.late are the    *)
(* RINTSTS bits set between the read of MINTSTS and the write-back.         *)

handler_write_back_plain(status, written) == {}

\* a write of `written` to a clear-on-write status register holding
\* `status`: the bits written as 1 are cleared, the others keep their value
handler_write_back(status, written) == status \ written

\* Sdmmc::init enables all sixteen int_mask bits: MINTSTS shows RINTSTS
int_mask == Low16

\* the bits of IDSTS that Sdmmc::init enables in IDINTEN:
\* ti, ri, fbe, du, ces, ni, ai
idinten == {0, 1, 2, 4, 5, 8, 9}

\* the interrupt line: a masked status bit or an enabled DMA status bit is set
InterruptLine ==
    (intr.rintsts \cap int_mask) # {} \/ (intr.idsts \cap idinten) # {}

\* the hardware sets a status bit that is clear
HwRaise ==
    /\ pc = "ready"
    /\ raised < MaxRaceBits
    /\ raised' = raised + 1
    /\ \/ \E b \in RaceSdBits \ intr.rintsts :
            intr' = [intr EXCEPT
                        !.rintsts = @ \cup {b},
                        !.raised_sd[b] = @ + 1,
                        !.late = IF intr.hpc = "write_rintsts"
                                 THEN @ \cup {b} ELSE @]
       \/ \E b \in RaceDmaBits \ intr.idsts :
            intr' = [intr EXCEPT !.idsts = @ \cup {b},
                                 !.raised_dma[b] = @ + 1]
    /\ UNCHANGED <<pc, cmd, state, unhandled, ret, freq_khz, regs, log,
                   EVENT_QUEUE, hw_resp, buf, trail, visited, resp_reads,
                   req_khz, hw_cmd, txs, cur_slot, lines, isr, rcvd,
                   reset_locals, busy_wait, op_cond, wait_ticks>>

\* let pending = mintsts().read().bits() & 0xFFFF
IsrReadMintsts ==
    /\ pc = "ready"
    /\ intr.hpc = "idle"
    /\ InterruptLine
    /\ isr' = [NoIsr EXCEPT !.pending = (intr.rintsts \cap int_mask) \cap Low16]
    /\ intr' = [intr EXCEPT !.hpc = "write_rintsts"]
    /\ UNCHANGED <<pc, cmd, state, unhandled, ret, freq_khz, regs, log,
                   EVENT_QUEUE, raised, hw_resp, buf, trail, visited,
                   resp_reads, req_khz, hw_cmd, txs, cur_slot, lines, rcvd,
                   reset_locals, busy_wait, op_cond, wait_ticks>>

\* rintsts().write(|w| w.bits(pending))
IsrWriteRintsts ==
    /\ intr.hpc = "write_rintsts"
    /\ isr' = [isr EXCEPT !.rintsts = isr.pending]
    /\ intr' = [intr EXCEPT
                    !.rintsts = handler_write_back(@, isr.pending),
                    !.hpc = "read_idsts"]
    /\ UNCHANGED <<pc, cmd, state, unhandled, ret, freq_khz, regs, log,
                   EVENT_QUEUE, raised, hw_resp, buf, trail, visited,
                   resp_reads, req_khz, hw_cmd, txs, cur_slot, lines, rcvd,
                   reset_locals, busy_wait, op_cond, wait_ticks>>

\* let dma_pending = idsts().read().bits()
IsrReadIdsts ==
    /\ intr.hpc = "read_idsts"
    /\ isr' = [isr EXCEPT !.dma_pending = intr.idsts]
    /\ intr' = [intr EXCEPT !.hpc = "write_idsts"]
    /\ UNCHANGED <<pc, cmd, state, unhandled, ret, freq_khz, regs, log,
                   EVENT_QUEUE, raised, hw_resp, buf, trail, visited,
                   resp_reads, req_khz, hw_cmd, txs, cur_slot, lines, rcvd,
                   reset_locals, busy_wait, op_cond, wait_ticks>>

\* idsts().write(|w| w.bits(dma_pending))
IsrWriteIdsts ==
    /\ intr.hpc = "write_idsts"
    /\ isr' = [isr EXCEPT !.idsts = isr.dma_pending]
    /\ intr' = [intr EXCEPT
                    !.idsts = handler_write_back(@, isr.dma_pending),
                    !.hpc = "send"]
    /\ UNCHANGED <<pc, cmd, state, unhandled, ret, freq_khz, regs, log,
                   EVENT_QUEUE, raised, hw_resp, buf, trail, visited,
                   resp_reads, req_khz, hw_cmd, txs, cur_slot, lines, rcvd,
                   reset_locals, busy_wait, op_cond, wait_ticks>>

\* if pending != 0 || dma_pending != 0 { EVENT_QUEUE.try_send(event).unwrap() }
\* and the return from the handler
IsrSend ==
    /\ intr.hpc = "send"
    /\ intr' = [intr EXCEPT !.hpc = "idle"]
    /\ IF isr.pending # {} \/ isr.dma_pending # {}
       THEN \E sent \in {try_send(EVENT_QUEUE,
                                  [sdmmc_status |-> isr.pending,
                                   dma_status |-> isr.dma_pending])} :
                IF sent.ok
                THEN EVENT_QUEUE' = sent.queue /\ UNCHANGED pc
                ELSE pc' = "panicked" /\ UNCHANGED EVENT_QUEUE
       ELSE UNCHANGED <<EVENT_QUEUE, pc>>
    /\ UNCHANGED <<cmd, state, unhandled, ret, freq_khz, regs, log, raised,
                   hw_resp, buf, trail, visited, resp_reads, req_khz, hw_cmd,
                   txs, cur_slot, lines, isr, rcvd, reset_locals, busy_wait,
                   op_cond, wait_ticks>>

\* the consumer, at any point of the handler: EVENT_QUEUE.receive() in
\* wait_for_event returns the Event at the front
RaceReceive ==
    /\ pc = "ready"
    /\ EVENT_QUEUE # <<>>
    /\ rcvd' = Head(EVENT_QUEUE)
    /\ EVENT_QUEUE' = Tail(EVENT_QUEUE)
    /\ intr' = [intr EXCEPT
            !.got_sd = [b \in RaceSdBits |->
                @[b] + IF b \in Head(EVENT_QUEUE).sdmmc_status THEN 1 ELSE 0],
            !.got_dma = [b \in RaceDmaBits |->
                @[b] + IF b \in Head(EVENT_QUEUE).dma_status THEN 1 ELSE 0]]
    /\ UNCHANGED <<pc, cmd, state, unhandled, ret, freq_khz, regs, log, raised,
                   hw_resp, buf, trail, visited, resp_reads, req_khz, hw_cmd,
                   txs, cur_slot, lines, isr, reset_locals, busy_wait,
                   op_cond, wait_ticks>>

IsrStep ==
    IsrReadMintsts \/ IsrWriteRintsts \/ IsrReadIdsts \/ IsrWriteIdsts
        \/ IsrSend

NextRace == HwRaise \/ IsrStep \/ RaceReceive

\* the interrupt line is level-triggered and the handler runs to its end
\* without blocking: a handler step that is possible is taken
SpecRace == Init /\ [][NextRace]_vars /\ WF_vars(IsrStep)

----------------------------------------------------------------------------
(* The end of do_transaction: the post-command busy wait.  busy_wait.busy_for *)
(* is the number of reads of STATUS.data_busy that return busy before the    *)
(* first one that returns clear, BusyStuck for a line that never clears.     *)

BusyStuck == MaxBusyReads + 1

\* Duration::from_millis(timeout_ms).as_ticks()
as_ticks(timeout_ms) == timeout_ms * TicksPerMs

\* card_busy, read after b.polls earlier reads
card_busy(b) == b.busy_for = BusyStuck \/ b.polls < b.busy_for

wait_for_busy_cleared_step_no_zero_case(timeout_ms, b) ==
    IF b.yields >= as_ticks(timeout_ms)
    THEN [done |-> TRUE, res |-> FALSE, b |-> b]
    ELSE IF ~card_busy(b)
    THEN [done |-> TRUE, res |-> TRUE, b |-> [b EXCEPT !.polls = @ + 1]]
    ELSE [done |-> FALSE, res |-> FALSE,
          b |-> [b EXCEPT !.polls = @ + 1, !.yields = @ + 1]]

\* wait_for_busy_cleared, up to its next yield_now().await or its return:
\* the single poll of timeout_ms = 0, or the loop test and one pass of the
\* loop; b.yields is the number of passes completed
wait_for_busy_cleared_step(timeout_ms, b) ==
    IF timeout_ms = 0
    THEN [done |-> TRUE, res |-> ~card_busy(b), b |-> [b EXCEPT !.polls = @ + 1]]
    ELSE IF b.yields >= as_ticks(timeout_ms)
    THEN [done |-> TRUE, res |-> FALSE, b |-> b]
    ELSE IF ~card_busy(b)
    THEN [done |-> TRUE, res |-> TRUE, b |-> [b EXCEPT !.polls = @ + 1]]
    ELSE [done |-> FALSE, res |-> FALSE,
          b |-> [b EXCEPT !.polls = @ + 1, !.yields = @ + 1]]

\* descriptors at the end of the event loop, with and without the wait-busy
\* flag and with the timeouts explored
BusyDescriptors ==
    {[SdmmcCmd_default EXCEPT !.opcode = MMC_WRITE_BLOCK_SINGLE, !.flags = fl,
                              !.timeout_ms = t] :
        fl \in {SCF_RSP_R1, SCF_RSP_R1 \cup SCF_WAIT_BUSY},
        t \in 0..MaxTimeoutMs}

\* the event loop of do_transaction has ended, with ret Ok or with the
\* Timeout of a wait for an Event
InitBusy ==
    /\ pc = "busy_in"
    /\ cmd \in BusyDescriptors
    /\ ret \in {"Ok", "Timeout"}
    /\ busy_wait \in {[NoBusyWait EXCEPT !.busy_for = k] : k \in 0..BusyStuck}
    /\ op_cond = NoOpCond
    /\ intr = NoIntr
    /\ wait_ticks = 0
    /\ state = "Idle"
    /\ unhandled = NoEvent
    /\ freq_khz = 20000
    /\ regs = RegsAfterInit
    /\ log = <<>>
    /\ EVENT_QUEUE = <<>>
    /\ raised = 0
    /\ hw_resp = <<0, 0, 0, 0>>
    /\ buf = "caller"
    /\ trail = <<>>
    /\ visited = <<>>
    /\ resp_reads = 0
    /\ req_khz = 20000
    /\ hw_cmd = SdmmcHwCmd_default
    /\ txs = 0
    /\ cur_slot = SelfSlot
    /\ lines = NoFault
    /\ isr = NoIsr
    /\ rcvd = NoEvent
    /\ reset_locals = NoReset

\* `if ret.is_ok() && cmd_info.has_flag(SCF_WAIT_BUSY)`, and the return of
\* do_transaction when the test fails
BusyWaitBegin ==
    /\ pc = "busy_in"
    /\ IF ret = "Ok" /\ has_flag(cmd, SCF_WAIT_BUSY)
       THEN pc' = "busy_poll" /\ UNCHANGED buf
       ELSE pc' = "returned" /\ buf' = do_transaction_tail_buf(cmd, buf)
    /\ UNCHANGED <<cmd, state, unhandled, ret, freq_khz, regs, log, EVENT_QUEUE,
                   raised, hw_resp, trail, visited, resp_reads, req_khz, hw_cmd,
                   txs, cur_slot, lines, isr, rcvd, reset_locals, busy_wait,
                   op_cond, intr, wait_ticks>>

\* wait_for_busy_cleared between two yields, and the return of do_transaction
\* when it is done
BusyWaitPoll ==
    /\ pc = "busy_poll"
    /\ \E w \in {wait_for_busy_cleared_step(cmd.timeout_ms, busy_wait)} :
            /\ busy_wait' = w.b
            /\ IF w.done
               THEN /\ ret' = do_transaction_tail_ret(cmd, ret, w.res)
                    /\ buf' = do_transaction_tail_buf(cmd, buf)
                    /\ pc' = "returned"
               ELSE UNCHANGED <<ret, buf, pc>>
    /\ UNCHANGED <<cmd, state, unhandled, freq_khz, regs, log, EVENT_QUEUE,
                   raised, hw_resp, trail, visited, resp_reads, req_khz, hw_cmd,
                   txs, cur_slot, lines, isr, rcvd, reset_locals, op_cond, intr, wait_ticks>>

NextBusy == BusyWaitBegin \/ BusyWaitPoll

SpecBusy == InitBusy /\ [][NextBusy]_vars

----------------------------------------------------------------------------
(* cmd_send_op_cond: the negotiation of the operating conditions.  A send_cmd *)
(* is one submission; here it is its outcome, the Result and the first word  *)
(* of the response, a 32-bit word and like the masks a set of bits.          *)

SD_APP_OP_COND == 41
MMC_SEND_OP_COND == 1
SCF_CMD_BCR == {4, 5}
SCF_RSP_R3 == SCF_RSP_PRESENT
MMC_R1_APP_CMD == {5}
MMC_OCR_MEM_READY == {31}
MMC_OCR_ACCESS_MODE_MASK == {29, 30}
MMC_OCR_SECTOR_MODE == {30}
MAX_ERRORS == 3
MAX_RETRIES == 300

\* the voltage window of the OCR words explored
OcrWindow == {20, 21}

\* the ocr arguments of cmd_send_op_cond explored
OcrRequests == {{}, OcrWindow, OcrWindow \cup {30}}

\* the outcomes of a send_cmd explored: the card answers busy, ready, ready
\* with the sector-mode bit, or the submission fails
SendOutcomes ==
    {[ret |-> "Ok", r0 |-> OcrWindow],
     [ret |-> "Ok", r0 |-> OcrWindow \cup MMC_OCR_MEM_READY],
     [ret |-> "Ok", r0 |-> OcrWindow \cup MMC_OCR_MEM_READY \cup MMC_OCR_SECTOR_MODE],
     [ret |-> "Timeout", r0 |-> {}],
     [ret |-> "InvalidCRC", r0 |-> {}]}

\* the outcomes of the send_cmd of MMC_APP_CMD explored: an R1 with and
\* without the APP_CMD bit, or a failure
AppOutcomes ==
    {[ret |-> "Ok", r0 |-> MMC_R1_APP_CMD],
     [ret |-> "Ok", r0 |-> {}],
     [ret |-> "Timeout", r0 |-> {}]}

\* send_app_cmd: MMC_APP_CMD, the test of its response, then the command
send_app_cmd(app, out) ==
    IF app.ret # "Ok" THEN [ret |-> app.ret, r0 |-> {}]
    ELSE IF app.r0 \cap MMC_R1_APP_CMD = {} THEN [ret |-> "NotSupported", r0 |-> {}]
    ELSE out

\* the descriptor an iteration of the loop builds
op_cond_cmd(ocr, is_mmc) ==
    IF is_mmc
    THEN [opcode |-> SD_APP_OP_COND, arg |-> ocr,
          flags |-> SCF_CMD_BCR \cup SCF_RSP_R3]
    ELSE [opcode |-> MMC_SEND_OP_COND,
          arg |-> (ocr \ MMC_OCR_ACCESS_MODE_MASK) \cup MMC_OCR_SECTOR_MODE,
          flags |-> SCF_CMD_BCR \cup SCF_RSP_R3]

op_cond_iteration_errors_ignored(o, app, out) ==
    LET sent == IF o.is_mmc THEN send_app_cmd(app, out) ELSE out
        o1 == [o EXCEPT !.attempts = @ + 1, !.last = sent,
                        !.cmd = op_cond_cmd(o.ocr, o.is_mmc)]
    IN  IF sent.ret = "Ok"
        THEN IF sent.r0 \cap MMC_OCR_MEM_READY # {} \/ o.ocr = {}
             THEN [done |-> TRUE, o |-> [o1 EXCEPT !.ocrp = sent.r0, !.res = "Ok"]]
             ELSE [done |-> FALSE, o |-> o1]
        ELSE [done |-> FALSE, o |-> [o1 EXCEPT !.err_cnt = @ - 1]]

\* one iteration of `for _ in 0..MAX_RETRIES`, with the outcome app of the
\* send_cmd of MMC_APP_CMD and the outcome out of the send_cmd of the command
op_cond_iteration(o, app, out) ==
    LET sent == IF o.is_mmc THEN send_app_cmd(app, out) ELSE out
        o1 == [o EXCEPT !.attempts = @ + 1, !.last = sent,
                        !.cmd = op_cond_cmd(o.ocr, o.is_mmc)]
    IN  IF sent.ret = "Ok"
        THEN IF sent.r0 \cap MMC_OCR_MEM_READY # {} \/ o.ocr = {}
             THEN [done |-> TRUE, o |-> [o1 EXCEPT !.ocrp = sent.r0, !.res = "Ok"]]
             ELSE [done |-> FALSE, o |-> o1]
        ELSE IF o.err_cnt - 1 = 0
             THEN [done |-> TRUE, o |-> [o1 EXCEPT !.err_cnt = 0, !.res = sent.ret]]
             ELSE [done |-> FALSE, o |-> [o1 EXCEPT !.err_cnt = @ - 1]]

\* cmd_send_op_cond is called on a card after init
InitOpCond ==
    /\ pc = "opcond_in"
    /\ op_cond \in {[NoOpCond EXCEPT !.ocr = o, !.is_mmc = b] :
                        o \in OcrRequests, b \in BOOLEAN}
    /\ intr = NoIntr
    /\ wait_ticks = 0
    /\ busy_wait = NoBusyWait
    /\ cmd = SdmmcCmd_default
    /\ ret = "Ok"
    /\ state = "Idle"
    /\ unhandled = NoEvent
    /\ freq_khz = 20000
    /\ regs = RegsAfterInit
    /\ log = <<>>
    /\ EVENT_QUEUE = <<>>
    /\ raised = 0
    /\ hw_resp = <<0, 0, 0, 0>>
    /\ buf = "caller"
    /\ trail = <<>>
    /\ visited = <<>>
    /\ resp_reads = 0
    /\ req_khz = 20000
    /\ hw_cmd = SdmmcHwCmd_default
    /\ txs = 0
    /\ cur_slot = SelfSlot
    /\ lines = NoFault
    /\ isr = NoIsr
    /\ rcvd = NoEvent
    /\ reset_locals = NoReset

\* `self.sdmmc.set_clk_always_on(self.slot, true)` and `err_cnt = MAX_ERRORS`
OpCondBegin ==
    /\ pc = "opcond_in"
    /\ \E m \in {set_clk_always_on(Machine(regs, log, 0), SelfSlot, TRUE)} :
            regs' = m.regs /\ log' = m.log
    /\ op_cond' = [op_cond EXCEPT !.err_cnt = MAX_ERRORS]
    /\ pc' = "opcond_loop"
    /\ UNCHANGED <<cmd, state, unhandled, ret, freq_khz, EVENT_QUEUE,
                   raised, hw_resp, buf, trail, visited, resp_reads, req_khz,
                   hw_cmd, txs, cur_slot, lines, isr, rcvd, reset_locals,
                   busy_wait, intr, wait_ticks>>

\* the loop test, and an iteration up to its break, continue or timer, or
\* the `Err(Error::Timeout)` after the loop
OpCondAttempt ==
    /\ pc = "opcond_loop"
    /\ IF op_cond.attempts >= MAX_RETRIES
       THEN /\ op_cond' = [op_cond EXCEPT !.res = "Timeout"]
            /\ pc' = "opcond_out"
       ELSE \E app \in AppOutcomes, out \in SendOutcomes :
              \E it \in {op_cond_iteration(op_cond, app, out)} :
                /\ op_cond' = it.o
                /\ pc' = IF it.done THEN "opcond_out" ELSE "opcond_loop"
    /\ UNCHANGED <<cmd, state, unhandled, ret, freq_khz, regs, log, EVENT_QUEUE,
                   raised, hw_resp, buf, trail, visited, resp_reads, req_khz,
                   hw_cmd, txs, cur_slot, lines, isr, rcvd, reset_locals,
                   busy_wait, intr, wait_ticks>>

\* `self.sdmmc.set_clk_always_on(self.slot, false); res`
OpCondEnd ==
    /\ pc = "opcond_out"
    /\ \E m \in {set_clk_always_on(Machine(regs, log, 0), SelfSlot, FALSE)} :
            regs' = m.regs /\ log' = m.log
    /\ ret' = op_cond.res
    /\ pc' = "returned"
    /\ UNCHANGED <<cmd, state, unhandled, freq_khz, EVENT_QUEUE,
                   raised, hw_resp, buf, trail, visited, resp_reads, req_khz,
                   hw_cmd, txs, cur_slot, lines, isr, rcvd, reset_locals,
                   busy_wait, op_cond, intr, wait_ticks>>

NextOpCond == OpCondBegin \/ OpCondAttempt \/ OpCondEnd

\* each send_cmd returns (it bounds every wait by a timeout) and the executor
\* polls the task again after each await
SpecOpCond ==
    /\ InitOpCond
    /\ [][NextOpCond]_vars
    /\ WF_vars(OpCondBegin) /\ WF_vars(OpCondAttempt) /\ WF_vars(OpCondEnd)

----------------------------------------------------------------------------
(* The clock stages of a voltage switch, applied in the order of a          *)
(* transaction that goes through all of them: stage 1 before the command is *)
(* submitted, stage 3 on the VOLT_SW interrupt in WaitingVoltageSwitch.     *)

InitVolt ==
    /\ pc = "volt_in"
    /\ cur_slot \in Slots
    /\ \E lp \in SUBSET {0, 1}, en \in SUBSET {0, 1}, src \in SUBSET {0, 1} :
            regs = [RegsAfterInit EXCEPT !.lp_enable = lp, !.cclk_enable = en,
                                         !.clksrc = src]
    /\ cmd = [SdmmcCmd_default EXCEPT !.opcode = SD_SWITCH_VOLTAGE,
                                      !.flags = SCF_RSP_R1]
    /\ state = "Idle"
    /\ unhandled = NoEvent
    /\ ret = "Ok"
    /\ freq_khz = 20000
    /\ req_khz = 20000
    /\ log = <<>>
    /\ EVENT_QUEUE = <<>>
    /\ raised = 0
    /\ hw_resp = <<0, 0, 0, 0>>
    /\ buf = "caller"
    /\ trail = <<>>
    /\ visited = <<>>
    /\ resp_reads = 0
    /\ hw_cmd = SdmmcHwCmd_default
    /\ txs = 0
    /\ lines = NoFault
    /\ isr = NoIsr
    /\ rcvd = NoEvent
    /\ reset_locals = NoReset
    /\ busy_wait = NoBusyWait
    /\ op_cond = NoOpCond
    /\ intr = NoIntr
    /\ wait_ticks = 0

\* handle_voltage_switch_stage1(slot, cmd)
VoltStage1 ==
    /\ pc = "volt_in"
    /\ \E m \in {handle_voltage_switch_stage1(Machine(regs, log, 0), cur_slot)} :
            regs' = m.regs /\ log' = m.log
    /\ state' = "SendingVoltageSwitch"
    /\ pc' = "volt_wait"
    /\ UNCHANGED <<cmd, unhandled, ret, freq_khz, EVENT_QUEUE, raised, hw_resp,
                   buf, trail, visited, resp_reads, req_khz, hw_cmd, txs,
                   cur_slot, lines, isr, rcvd, reset_locals, busy_wait, op_cond, intr, wait_ticks>>

\* handle_voltage_switch_stage3(cmd)
VoltStage3 ==
    /\ pc = "volt_wait"
    /\ \E m \in {set_clk_always_on(Machine(regs, log, 0), cur_slot, TRUE)} :
            regs' = m.regs /\ log' = m.log
    /\ state' = "Idle"
    /\ pc' = "volt_out"
    /\ UNCHANGED <<cmd, unhandled, ret, freq_khz, EVENT_QUEUE, raised, hw_resp,
                   buf, trail, visited, resp_reads, req_khz, hw_cmd, txs,
                   cur_slot, lines, isr, rcvd, reset_locals, busy_wait, op_cond, intr, wait_ticks>>

NextVolt == VoltStage1 \/ VoltStage3

SpecVolt == InitVolt /\ [][NextVolt]_vars

----------------------------------------------------------------------------
(* The event loop of do_transaction against time.  wait_ticks counts the    *)
(* ticks since the wait_for_event of the running handle_event call began:   *)
(* each call starts a wait of its own with the whole of cmd.timeout_ms.     *)
(* The hardware may at any time report status bits that no state of         *)
(* process_events consumes (card detect, hardware locked error).            *)

\* a command without data, with the timeouts explored
LoopDescriptors ==
    {[SdmmcCmd_default EXCEPT !.opcode = MMC_GO_IDLE_STATE,
                              !.flags = SCF_RSP_R0, !.timeout_ms = t] :
        t \in 1..MaxTimeoutMs}

\* status bits that process_events tests in no state
UnconsumedBits == SDMMC_INTMASK_CD \cup SDMMC_INTMASK_HLE

DoTransactionLoop == Submit(LoopDescriptors, {NoFault}, MaxTx)

\* handle_event receives an Event: the wait ends, the next call waits anew
HandleEventLoop == HandleEventReceived(FALSE)

\* a tick of the time driver while handle_event waits
WaitTick ==
    /\ pc = "events"
    /\ wait_ticks < as_ticks(cmd.timeout_ms)
    /\ wait_ticks' = wait_ticks + 1
    /\ UNCHANGED <<pc, cmd, state, unhandled, ret, freq_khz, regs, log,
                   EVENT_QUEUE, raised, hw_resp, buf, trail, visited,
                   resp_reads, req_khz, hw_cmd, txs, cur_slot, lines, isr,
                   rcvd, reset_locals, busy_wait, op_cond, intr>>

\* with_timeout(Duration::from_ticks(ticks)) runs out with the queue empty
WaitTimeout ==
    /\ wait_ticks >= as_ticks(cmd.timeout_ms)
    /\ HandleEventTimeout

\* the handler runs with command-done in MINTSTS
HandlerCmdDone ==
    /\ pc = "events"
    /\ Len(EVENT_QUEUE) < MaxQueue
    /\ handler(SDMMC_INTMASK_CMD_DONE, {})
    /\ UNCHANGED <<cmd, state, unhandled, ret, freq_khz, regs, log, raised,
                   hw_resp, buf, trail, visited, resp_reads, req_khz, hw_cmd,
                   txs, cur_slot, lines, rcvd, reset_locals, busy_wait,
                   op_cond, intr, wait_ticks>>

\* the handler runs with only an unconsumed bit set in MINTSTS
HandlerUnconsumed ==
    /\ pc = "events"
    /\ Len(EVENT_QUEUE) < MaxQueue
    /\ \E b \in UnconsumedBits : handler({b}, {})
    /\ UNCHANGED <<cmd, state, unhandled, ret, freq_khz, regs, log, raised,
                   hw_resp, buf, trail, visited, resp_reads, req_khz, hw_cmd,
                   txs, cur_slot, lines, rcvd, reset_locals, busy_wait,
                   op_cond, intr, wait_ticks>>

NextLoop ==
    DoTransactionLoop \/ HandleEventLoop \/ WaitTick \/ WaitTimeout
        \/ HandlerCmdDone \/ HandlerUnconsumed

\* the executor resumes the task when an Event is in the queue, the time
\* driver keeps ticking, and the timer of a wait fires once it has run out
SpecLoop ==
    Init /\ [][NextLoop]_vars
        /\ WF_vars(HandleEventLoop) /\ WF_vars(WaitTick) /\ WF_vars(WaitTimeout)

----------------------------------------------------------------------------
(* Properties of the command state machine, checked under Spec *)

\* the step is one handle_event call that received the Event at the head of
\* the queue
EventTaken ==
    pc = "events" /\ EVENT_QUEUE # <<>> /\ EVENT_QUEUE' = Tail(EVENT_QUEUE)

\* the received Event, and the snapshot process_events works on (the Event
\* merged with the unhandled accumulator)
Received == Head(EVENT_QUEUE)

Snapshot == merge_unhandled(Received, unhandled)

Entered(st) == \E i \in 1..Len(visited') : visited'[i] = st

OnlySdmmc(bits) == Snapshot = [sdmmc_status |-> bits, dma_status |-> {}]

\* C1: for the go-idle descriptor (opcode 0, no response flags, no data) with
\* no command error recorded so far, the Event that carries the command-done
\* bit and no command-error bit takes SendingCmd to Idle, leaves cmd.err None,
\* reads no response register, writes no register, leaves the buffer alone,
\* and do_transaction returns Ok
C1_GoIdleEndsOnCmdDone ==
    [][(/\ EventTaken
        /\ state = "SendingCmd"
        /\ cmd.opcode = MMC_GO_IDLE_STATE
        /\ ~has_flag(cmd, SCF_RSP_PRESENT)
        /\ ~cmd.data
        /\ cmd.err = NoError
        /\ SDMMC_INTMASK_CMD_DONE \subseteq Received.sdmmc_status
        /\ (Snapshot.sdmmc_status \cap SD_CMD_ERR_MASK) = {})
       => (/\ state' = "Idle"
           /\ trail' = Append(trail, "Idle")
           /\ cmd'.err = NoError
           /\ cmd'.responce = cmd.responce
           /\ resp_reads' = resp_reads
           /\ regs' = regs
           /\ log' = log
           /\ buf' = buf
           /\ pc' = "returned"
           /\ ret' = "Ok")]_vars

C1_Witness ==
    /\ pc = "returned"
    /\ cmd.opcode = MMC_GO_IDLE_STATE
    /\ ~cmd.data
    /\ trail = <<"Idle">>
    /\ visited = <<"SendingCmd", "Idle">>
    /\ cmd.err = NoError
    /\ resp_reads = 0
    /\ ret = "Ok"

IsRead512 ==
    /\ cmd.data
    /\ has_flag(cmd, SCF_CMD_READ)
    /\ cmd.datalen = 512
    /\ cmd.blklen = 512
    /\ ~has_flag(cmd, SCF_WAIT_BUSY)

\* C2: for a read descriptor with a data buffer (datalen 512, blklen 512), an
\* Event with only command-done takes SendingCmd to SendingData, an Event with
\* only DMA-done bits takes SendingData to Busy, and an Event with only
\* data-over takes Busy to Idle, after which the receive buffer is drained and
\* do_transaction returns Ok; each Event makes exactly one transition
C2_ReadWalksThreeStates ==
    [][(EventTaken /\ IsRead512 /\ cmd.err = NoError)
       => (/\ (state = "SendingCmd" /\ OnlySdmmc(SDMMC_INTMASK_CMD_DONE))
                => (/\ state' = "SendingData"
                    /\ visited' = <<"SendingCmd", "SendingData">>
                    /\ pc' = "events")
           /\ (/\ state = "SendingData"
               /\ Snapshot.sdmmc_status = {}
               /\ Snapshot.dma_status # {}
               /\ Snapshot.dma_status \subseteq
                    (SDMMC_IDMAC_INTMASK_RI \cup SDMMC_IDMAC_INTMASK_TI
                        \cup SDMMC_IDMAC_INTMASK_NI))
                => (/\ state' = "Busy"
                    /\ visited' = <<"SendingData", "Busy">>
                    /\ pc' = "events")
           /\ (state = "Busy" /\ OnlySdmmc(SDMMC_INTMASK_DATA_OVER))
                => (/\ state' = "Idle"
                    /\ visited' = <<"Busy", "Idle">>
                    /\ cmd'.err = NoError
                    /\ buf' = "dma_rx"
                    /\ pc' = "returned"
                    /\ ret' = "Ok"))]_vars

C2_Witness ==
    /\ pc = "returned"
    /\ IsRead512
    /\ trail = <<"SendingData", "Busy", "Idle">>
    /\ unhandled = NoEvent
    /\ cmd.err = NoError
    /\ buf = "dma_rx"
    /\ ret = "Ok"

\* C3 as stated: the first Event of a transaction that starts in SendingCmd
\* and carries the response-timeout bit records Timeout in cmd.err and takes
\* the state machine to Idle without entering SendingData
C3_RtoGoesIdle ==
    [][(/\ EventTaken
        /\ state = "SendingCmd"
        /\ trail = <<>>
        /\ SDMMC_INTMASK_RTO \subseteq Received.sdmmc_status)
       => (/\ cmd'.err = "Timeout"
           /\ state' = "Idle"
           /\ ~Entered("SendingData"))]_vars

\* C3 amended: an Event received in SendingCmd that carries the
\* response-timeout bit records Timeout in cmd.err; with a command error
\* recorded the state becomes Idle with the Event that carries command-done
\* (the same one or a later one) and stays SendingCmd until then; SendingData
\* is never entered, and DMA is stopped if the command has a data buffer
C3_RtoRecordedIdleOnCmdDone ==
    [][(/\ EventTaken
        /\ state = "SendingCmd"
        /\ (cmd.err # NoError \/ SDMMC_INTMASK_RTO \subseteq Received.sdmmc_status))
       => (/\ cmd'.err # NoError
           /\ (SDMMC_INTMASK_RTO \subseteq Received.sdmmc_status)
                => (/\ cmd'.err = "Timeout"
                    /\ cmd.data => ~DmaActive(regs'))
           /\ state' = IF SDMMC_INTMASK_CMD_DONE \subseteq Snapshot.sdmmc_status
                       THEN "Idle" ELSE "SendingCmd"
           /\ ~Entered("SendingData"))]_vars

C3_Witness ==
    /\ pc = "events"
    /\ state = "SendingCmd"
    /\ trail = <<"SendingCmd">>
    /\ cmd.data
    /\ cmd.err = "Timeout"
    /\ ~DmaActive(regs)

\* C4: for the switch-voltage descriptor (opcode 11) the starting state is
\* SendingVoltageSwitch; an Event with the voltage-switch bit and no
\* command-error bit leads to WaitingVoltageSwitch with the transaction still
\* waiting, a second voltage-switch Event leads from there to Idle, and an
\* Event with a command-error bit leads to Idle
C4_VoltageSwitchTwoStages ==
    [][(EventTaken /\ cmd.opcode = SD_SWITCH_VOLTAGE)
       => (/\ state \in {"SendingVoltageSwitch", "WaitingVoltageSwitch"}
           /\ (/\ state = "SendingVoltageSwitch"
               /\ SDMMC_INTMASK_VOLT_SW \subseteq Snapshot.sdmmc_status
               /\ (Snapshot.sdmmc_status \cap SD_CMD_ERR_MASK) = {})
                => (state' = "WaitingVoltageSwitch" /\ pc' = "events")
           /\ (/\ state = "WaitingVoltageSwitch"
               /\ SDMMC_INTMASK_VOLT_SW \subseteq Snapshot.sdmmc_status)
                => (state' = "Idle" /\ pc' = "returned")
           /\ ((Snapshot.sdmmc_status \cap SD_CMD_ERR_MASK) # {})
                => (state' = "Idle" /\ pc' = "returned"))]_vars

\* C5 as stated: when an Event received in SendingCmd carries a command-phase
\* bit (a command error or command-done) together with a data-error bit, the
\* data-error bit is in the unhandled accumulator after that pass
C5_DataErrKeptInUnhandled ==
    [][(/\ EventTaken
        /\ state = "SendingCmd"
        /\ (Received.sdmmc_status
              \cap (SD_CMD_ERR_MASK \cup SDMMC_INTMASK_CMD_DONE)) # {}
        /\ (Received.sdmmc_status \cap SD_DATA_ERR_MASK) # {})
       => ((Received.sdmmc_status \cap SD_DATA_ERR_MASK)
              \subseteq unhandled'.sdmmc_status)]_vars

\* C5 amended: when the snapshot worked on in SendingCmd carries a data-error
\* bit, the bit is not lost: if the pass does not enter SendingData it is in
\* the unhandled accumulator afterwards, and if the pass enters SendingData
\* (command-done without error, with a data buffer) it is processed there in
\* the same pass: a data error is recorded, DMA is stopped and the bit is
\* cleared, without the hardware raising it again
C5_DataErrKeptOrProcessed ==
    [][(/\ EventTaken
        /\ state = "SendingCmd"
        /\ (Snapshot.sdmmc_status \cap SD_DATA_ERR_MASK) # {})
       => IF Entered("SendingData")
          THEN /\ cmd'.err = process_data_status_err(cmd, Snapshot.sdmmc_status)
               /\ ~DmaActive(regs')
               /\ (unhandled'.sdmmc_status \cap SD_DATA_ERR_MASK) = {}
          ELSE (Snapshot.sdmmc_status \cap SD_DATA_ERR_MASK)
                  \subseteq unhandled'.sdmmc_status]_vars

C5_Witness ==
    /\ Len(trail) = 1
    /\ visited = <<"SendingCmd", "SendingData">>
    /\ cmd.err = "InvalidCRC"
    /\ ~DmaActive(regs)
    /\ unhandled = NoEvent

\* C6: once a process_events pass has returned, running process_events again
\* on the state and the unhandled accumulator it left changes nothing: the
\* state, the descriptor (error and response), the accumulator and the
\* registers stay as they are and no response register is read
C6_SecondPassChangesNothing ==
    (pc \in {"events", "returned"} /\ trail # <<>>)
        => \A hw \in HwInputs(1) :
           \A p \in {process_events(Machine(regs, <<>>, 0), SelfSlot, cmd,
                                    state, unhandled, hw_resp, hw)} :
                  /\ ~p.panic
                  /\ p.state = state
                  /\ p.cmd = cmd
                  /\ p.event = unhandled
                  /\ p.reads = 0
                  /\ p.m.regs = regs
                  /\ p.m.log = <<>>

C6_Witness ==
    /\ pc = "events"
    /\ state = "SendingCmd"
    /\ trail = <<"SendingCmd">>
    /\ cmd.err = "InvalidResponce"
    /\ resp_reads = 1
    /\ unhandled.sdmmc_status = SDMMC_INTMASK_DATA_OVER

\* C7: a descriptor with a data buffer whose datalen is not a whole multiple
\* of blklen is rejected by do_transaction with InvalidSize before any
\* register is written
C7_BadSizeRejectedBeforeWrites ==
    (/\ pc \in {"returned", "panicked"}
     /\ trail = <<>>
     /\ cmd.data
     /\ (cmd.blklen = 0 \/ cmd.datalen % cmd.blklen # 0))
        => (pc = "returned" /\ ret = "InvalidSize" /\ log = <<>>)

----------------------------------------------------------------------------
(* Properties of make_hw_cmd, checked under SpecCmd *)

MultiBlockOpcode(op) ==
    op \in {MMC_READ_DAT_UNTIL_STOP, MMC_READ_BLOCK_MULTIPLE,
            MMC_WRITE_DAT_UNTIL_STOP, MMC_WRITE_BLOCK_MULTIPLE}

\* C8 as stated: make_hw_cmd sets data_expected iff a data buffer is attached,
\* sets rw iff a buffer is attached and the read flag is set, and for a
\* descriptor with a data buffer sets send_auto_stop iff the opcode is one of
\* the four multi-block/stream opcodes
C8_AutoStopIffMultiBlock ==
    pc = "hw_out"
        => (/\ hw_cmd.data_expected = cmd.data
            /\ hw_cmd.rw = (cmd.data /\ has_flag(cmd, SCF_CMD_READ))
            /\ cmd.data
                 => (hw_cmd.send_auto_stop = MultiBlockOpcode(cmd.opcode)))

\* C8 amended: as C8, except that send_auto_stop is set iff the opcode is one
\* of the four multi-block/stream opcodes only for a descriptor whose data
\* buffer has a nonzero datalen; with datalen 0 or no buffer it is not set
C8_AutoStopIffMultiBlockNonEmpty ==
    pc = "hw_out"
        => (/\ hw_cmd.data_expected = cmd.data
            /\ hw_cmd.rw = (cmd.data /\ has_flag(cmd, SCF_CMD_READ))
            /\ (cmd.data /\ cmd.datalen > 0)
                 => (hw_cmd.send_auto_stop = MultiBlockOpcode(cmd.opcode))
            /\ (~cmd.data \/ cmd.datalen = 0) => ~hw_cmd.send_auto_stop)

C8_Witness ==
    /\ pc = "hw_out"
    /\ cmd.data
    /\ cmd.datalen = 0
    /\ cmd.opcode = MMC_READ_BLOCK_MULTIPLE
    /\ hw_cmd.data_expected
    /\ ~hw_cmd.send_auto_stop

\* the four flags of the command word that depend on the opcode alone
OpcodeFlagsOf(hw) ==
    <<hw.stop_abort_cmd, hw.send_init, hw.volt_switch, hw.wait_complete>>

OpcodeFlagsFor(op) ==
    <<op = MMC_STOP_TRANSMISSION, op = MMC_GO_IDLE_STATE,
      op = SD_SWITCH_VOLTAGE,
      op \notin {MMC_STOP_TRANSMISSION, MMC_GO_IDLE_STATE, SD_SWITCH_VOLTAGE}>>

\* descriptors that differ from the compiled one in the argument, the
\* response contents, and (when sizes is TRUE) the buffer sizes
Variants(sizes) ==
    {d \in {[cmd EXCEPT !.arg = a, !.responce = r,
                        !.datalen = sz[1], !.blklen = sz[2]] :
              a \in CmdArgs, r \in CmdResponces,
              sz \in IF sizes THEN CmdSizes ELSE {<<cmd.datalen, cmd.blklen>>}} :
        ~make_hw_cmd_panics(d)}

\* C9 as stated: make_hw_cmd sets exactly one of stop/abort (opcode 12),
\* init-sequence (opcode 0), voltage-switch (opcode 11) and wait-for-completion
\* (every other opcode), and the command word is the same for any two
\* descriptors with the same opcode, flags and data presence
C9_WordFromOpcodeFlagsData ==
    pc = "hw_out"
        => (/\ OpcodeFlagsOf(hw_cmd) = OpcodeFlagsFor(cmd.opcode)
            /\ \A d \in Variants(TRUE) : make_hw_cmd(d) = hw_cmd)

\* C9 amended: exactly one of the four flags is set, chosen by the opcode as
\* stated, and the command word is the same for any two descriptors with the
\* same opcode, flags, data presence and the same answer to whether datalen
\* is nonzero; it does not depend on the argument or the response contents
C9_WordFromOpcodeFlagsDataLen ==
    pc = "hw_out"
        => (/\ OpcodeFlagsOf(hw_cmd) = OpcodeFlagsFor(cmd.opcode)
            /\ Cardinality({i \in 1..4 : OpcodeFlagsOf(hw_cmd)[i]}) = 1
            /\ \A d \in Variants(TRUE) :
                  ((d.datalen > 0) = (cmd.datalen > 0))
                      => make_hw_cmd(d) = hw_cmd)

C9_Witness ==
    /\ pc = "hw_out"
    /\ cmd.opcode = MMC_GO_IDLE_STATE
    /\ cmd.arg = 1
    /\ cmd.responce = <<1, 2, 3, 4>>
    /\ hw_cmd.send_init
    /\ ~hw_cmd.wait_complete
    /\ \E d \in Variants(TRUE) : d.arg # cmd.arg /\ d.responce # cmd.responce

----------------------------------------------------------------------------
(* Properties of the clock arithmetic, checked under SpecClk *)

\* C10: for every requested frequency of at least 1 kHz, calc_freq applied to
\* the 8-bit divider pair returned by get_clk_divs (the frequency set_card_clk
\* writes back) is not above the requested frequency
C10_AchievedNotAboveRequested ==
    (pc = "clk_out" /\ ret = "Ok")
        => (/\ freq_khz = calc_freq(get_clock_div(regs),
                                    get_card_clock_div(regs, cur_slot))
            /\ freq_khz <= req_khz)

\* C11: the frequency set_card_clk writes back, calc_freq of the divider pair
\* get_clk_divs returned for the request, maps under get_clk_divs to that
\* same divider pair
C11_DivsRoundTrip ==
    (pc = "clk_out" /\ ret = "Ok")
        => (/\ freq_khz = calc_freq(get_clk_divs(req_khz)[1],
                                    get_clk_divs(req_khz)[2])
            /\ get_clk_divs(freq_khz) = get_clk_divs(req_khz))

\* SdmmcCard::send_cmd: the `?` hands an Err of do_transaction to the caller,
\* and after an Ok the function ends with Ok(()) whatever cmd.err holds
send_cmd_ret(r) == IF r # "Ok" THEN r ELSE "Ok"

\* C14: when do_transaction returns with an error recorded in the
\* descriptor's err slot (Timeout, InvalidCRC, InvalidResponce or Fail), it
\* returns that error as Err, and so does send_cmd
C14_RecordedErrorIsReturned ==
    (pc = "returned" /\ cmd.err # NoError)
        => (ret = cmd.err /\ send_cmd_ret(ret) = cmd.err)

\* C15: a submission whose descriptor satisfies the size precondition
\* (datalen a multiple of blklen) ends by returning; it does not panic
C15_NoPanicOnProtocolError ==
    (pc = "panicked") => make_hw_cmd_panics(cmd)

----------------------------------------------------------------------------
(* Properties of start_cmd, checked under SpecStart *)

\* C12: start_cmd addressed to a slot whose card-detect line reports no card
\* returns NotFound without writing a register, for Slot0 and for Slot1, and
\* a clock-update command is never answered with NotFound
C12_AbsentCardRejected ==
    /\ (pc = "start_out" /\ (Slot_bit(cur_slot) \cap lines.cd) # {})
          => (ret = "NotFound" /\ log = <<>>)
    /\ (pc = "clk_upd_out") => (ret # "NotFound")

\* C13: a write (data buffer, no read flag) addressed to a slot whose
\* write-protect line is asserted is answered with NotFound before the
\* command register is written, and a read with a card present is never
\* answered with NotFound
C13_WriteProtectRejectsWrites ==
    (pc = "start_out")
        => (/\ (/\ cmd.data
                /\ ~has_flag(cmd, SCF_CMD_READ)
                /\ (Slot_bit(cur_slot) \cap lines.wp) # {})
                  => (/\ ret = "NotFound"
                      /\ \A i \in 1..Len(log) : log[i] # "cmd")
            /\ (cmd.data /\ has_flag(cmd, SCF_CMD_READ) /\ lines.cd = {})
                  => (ret # "NotFound"))

----------------------------------------------------------------------------
(* Properties of init and reset, checked under SpecInit *)

\* C16: reset, and with it init, terminates.  It returns Ok only when the
\* controller-reset, DMA-reset and FIFO-reset bits are all clear, and then
\* init completes; it returns Err(Timeout) only when the bits are not all
\* clear and more than RESET_TIMEOUT_MS have elapsed since the request; a
\* pass of the loop made after the timeout has elapsed leaves the loop; after
\* Timeout init has not bound the interrupt handler, unmasked or enabled
\* interrupts; and every run ends in one of the two outcomes.
C16_ResetTerminates ==
    /\ [][(pc = "reset_loop" /\ pc' = "init_done")
            => (reset_done(regs) /\ ret' = "Ok" /\ regs' = RegsAfterInit)]_vars
    /\ [][(pc = "reset_loop" /\ pc' = "init_failed")
            => (/\ ~reset_done(regs)
                /\ reset_locals.elapsed_ms > RESET_TIMEOUT_MS
                /\ ret' = "Timeout"
                /\ regs' = regs /\ log' = log)]_vars
    /\ [](pc = "init_failed"
            => (/\ \A i \in 1..Len(log) :
                      log[i] \notin {"inter::bind", "intmask", "idinten"}
                /\ (regs.ctrl \cap CTRL_INT_ENABLE) = {}))
    /\ [](pc = "reset_loop" => reset_locals.elapsed_ms <= RESET_TIMEOUT_MS + 3 * TickMs)
    /\ <>(pc \in {"init_done", "init_failed"})

C16_Witness ==
    /\ pc = "init_failed"
    /\ ret = "Timeout"
    /\ reset_locals.yield_delay_ms > 100
    /\ (regs.ctrl \cap ResetBits) = CTRL_DMA_RESET

----------------------------------------------------------------------------
(* Properties of the interrupt handler and EVENT_QUEUE *)

\* the step is one invocation of the interrupt handler
HandlerStep == isr' # isr \/ Len(EVENT_QUEUE') > Len(EVENT_QUEUE)

\* C17: each invocation of the interrupt handler reads the controller status
\* masked to its lower 16 bits and the DMA status, writes exactly those two
\* bit patterns back to RINTSTS and IDSTS, and appends exactly one Event
\* holding the pair to the queue if either is nonzero and none if both are
\* zero; the consumer takes Events from the head of the queue, so it receives
\* them in the order of the invocations.  Checked under Spec.
C17_OneEventPerInterruptInOrder ==
    /\ [][HandlerStep
            => (/\ isr'.pending \subseteq Low16
                /\ isr'.rintsts = isr'.pending
                /\ isr'.idsts = isr'.dma_pending
                /\ IF isr'.pending # {} \/ isr'.dma_pending # {}
                   THEN EVENT_QUEUE'
                            = Append(EVENT_QUEUE,
                                     [sdmmc_status |-> isr'.pending,
                                      dma_status |-> isr'.dma_pending])
                   ELSE EVENT_QUEUE' = EVENT_QUEUE)]_vars
    /\ [][(~HandlerStep /\ EVENT_QUEUE' # EVENT_QUEUE)
            => (/\ EVENT_QUEUE # <<>>
                /\ rcvd' = Head(EVENT_QUEUE)
                /\ EVENT_QUEUE' = Tail(EVENT_QUEUE))]_vars

C17_Witness ==
    /\ Len(EVENT_QUEUE) = 1
    /\ rcvd # NoEvent
    /\ rcvd # EVENT_QUEUE[1]
    /\ isr.pending = EVENT_QUEUE[1].sdmmc_status
    /\ isr.dma_pending = EVENT_QUEUE[1].dma_status
    /\ isr.pending # {} /\ isr.dma_pending # {}

\* the step is the consumer receiving the Event at the head of the queue
ReceiveStep == EVENT_QUEUE # <<>> /\ EVENT_QUEUE' = Tail(EVENT_QUEUE)

\* C18: the queue never holds more than QUEUE_CAPACITY (32) Events; the
\* handler can always run to its end, whatever the queue holds (its enqueue
\* does not block); and when it has a nonzero Event to publish while the
\* queue holds 32, it panics and the queue keeps the 32 Events it held, none
\* dropped or overwritten; the handler panics in no other case.  Checked
\* under SpecIsr.
C18_FullQueueIsFatal ==
    /\ [](Len(EVENT_QUEUE) <= QUEUE_CAPACITY)
    /\ [](pc = "ready" => ENABLED HandlerIsr)
    /\ [][(/\ ~ReceiveStep
           /\ Len(EVENT_QUEUE) = QUEUE_CAPACITY
           /\ (isr'.pending # {} \/ isr'.dma_pending # {}))
            => (pc' = "panicked" /\ EVENT_QUEUE' = EVENT_QUEUE)]_vars
    /\ [][(pc # "panicked" /\ pc' = "panicked")
            => (/\ Len(EVENT_QUEUE) = QUEUE_CAPACITY
                /\ (isr'.pending # {} \/ isr'.dma_pending # {}))]_vars

C18_Witness ==
    /\ pc = "panicked"
    /\ Len(EVENT_QUEUE) = QUEUE_CAPACITY
    /\ isr.pending = SDMMC_INTMASK_CMD_DONE
    /\ EVENT_QUEUE[1].dma_status = SDMMC_IDMAC_INTMASK_NI
    /\ rcvd # NoEvent

----------------------------------------------------------------------------
(* Further properties of the command state machine, checked under Spec *)

\* the step is the iteration of the event loop whose wait for an Event times
\* out, followed by do_transaction's return
WaitTimedOut == pc = "events" /\ EVENT_QUEUE = <<>> /\ pc' = "returned"

\* C19: whenever the wait for the next Event inside a transaction times out,
\* the three register writes of dma_stop are the last writes made before
\* do_transaction returns, DMA is not running at the return, and the value
\* returned is Err(Timeout); this holds in every state the wait is made in
\* (always a non-Idle one), with or without a data buffer
C19_TimeoutStopsDma ==
    /\ [][WaitTimedOut
            => (/\ state # "Idle"
                /\ ret' = "Timeout"
                /\ log' = log \o <<"ctrl", "ctrl", "bmod">>
                /\ ~DmaActive(regs')
                /\ (regs'.ctrl \cap CTRL_USE_INTERNAL_DMAC) = {}
                /\ (regs'.ctrl \cap CTRL_DMA_RESET) # {}
                /\ state' = state /\ cmd' = cmd)]_vars
    /\ [](pc = "events" => state # "Idle")

C19_Witness ==
    /\ pc = "returned"
    /\ ret = "Timeout"
    /\ state = "SendingData"
    /\ cmd.data
    /\ ~DmaActive(regs)
    /\ Len(log) >= 3 /\ log[Len(log)] = "bmod"
    /\ rcvd # NoEvent

\* the controller status bits and the DMA status bits a state's arm of
\* process_events clears from the working snapshot
ConsumedSdmmc(st) ==
    CASE st = "SendingCmd" -> SD_CMD_ERR_MASK \cup SDMMC_INTMASK_CMD_DONE
      [] st = "SendingData" -> SD_DATA_ERR_MASK
      [] st = "Busy" -> SDMMC_INTMASK_DATA_OVER
      [] st \in {"SendingVoltageSwitch", "WaitingVoltageSwitch"} ->
            SD_CMD_ERR_MASK \cup SDMMC_INTMASK_VOLT_SW
      [] OTHER -> {}

ConsumedDma(st) == IF st = "SendingData" THEN SD_DMA_DONE_MASK ELSE {}

\* C20: for every call of process_events that returns, the unhandled
\* accumulator afterwards is the received Event ORed with the accumulator
\* left by the previous call, minus exactly the bits cleared by the arms of
\* the states visited in the call; so each bit of a received Event is either
\* cleared by a visited state or still in the accumulator after the call
C20_UnhandledIsMergedMinusConsumed ==
    [][(EventTaken /\ pc' # "panicked")
        => (/\ unhandled'.sdmmc_status
                  = (Head(EVENT_QUEUE).sdmmc_status \cup unhandled.sdmmc_status)
                        \ UNION {ConsumedSdmmc(visited'[i]) : i \in 1..Len(visited')}
            /\ unhandled'.dma_status
                  = (Head(EVENT_QUEUE).dma_status \cup unhandled.dma_status)
                        \ UNION {ConsumedDma(visited'[i]) : i \in 1..Len(visited')}
            /\ Len(visited') >= 1
            /\ visited'[1] = state
            /\ visited'[Len(visited')] = state')]_vars

C20_Witness ==
    /\ pc = "events"
    /\ Len(trail) >= 2
    /\ (unhandled.sdmmc_status \ rcvd.sdmmc_status) # {}
    /\ (rcvd.sdmmc_status \cap unhandled.sdmmc_status) # {}
    /\ state = "SendingData"

\* C21: process_events re-evaluates until the state stops changing.  One
\* Event whose snapshot carries command-done, a DMA-done bit and
\* data-transfer-over and no command-error bit, processed in SendingCmd for a
\* command with a data buffer and no error recorded, takes the transaction
\* through SendingData to Idle within that one call.  In SendingData a
\* snapshot with start-bit-error or data-transfer-over goes to Idle, DMA-done
\* present or not; a snapshot with a DMA-done bit and neither of the two
\* goes to Busy.
C21_FixedPointInOneCall ==
    /\ [][(/\ EventTaken /\ pc' # "panicked"
           /\ state = "SendingCmd" /\ cmd.data /\ cmd.err = NoError
           /\ SDMMC_INTMASK_CMD_DONE \subseteq Snapshot.sdmmc_status
           /\ SDMMC_INTMASK_DATA_OVER \subseteq Snapshot.sdmmc_status
           /\ (Snapshot.dma_status \cap SD_DMA_DONE_MASK) # {}
           /\ (Snapshot.sdmmc_status \cap SD_CMD_ERR_MASK) = {})
            => (/\ state' = "Idle"
                /\ visited' = <<"SendingCmd", "SendingData", "Idle">>
                /\ pc' = "returned")]_vars
    /\ [][(/\ EventTaken /\ pc' # "panicked"
           /\ state = "SendingData"
           /\ (Snapshot.sdmmc_status
                 \cap (SDMMC_INTMASK_SBE \cup SDMMC_INTMASK_DATA_OVER)) # {})
            => state' = "Idle"]_vars
    /\ [][(/\ EventTaken /\ pc' # "panicked"
           /\ state = "SendingData"
           /\ (Snapshot.dma_status \cap SD_DMA_DONE_MASK) # {}
           /\ (Snapshot.sdmmc_status
                 \cap (SDMMC_INTMASK_SBE \cup SDMMC_INTMASK_DATA_OVER)) = {})
            => (state' = "Busy" /\ pc' = "events")]_vars

C21_Witness ==
    /\ pc = "returned"
    /\ visited = <<"SendingCmd", "SendingData", "Idle">>
    /\ trail = <<"Idle">>
    /\ SDMMC_INTMASK_DATA_OVER \subseteq rcvd.sdmmc_status
    /\ (rcvd.dma_status \cap SD_DMA_DONE_MASK) # {}
    /\ cmd.err = NoError

\* C22: the command error is classified by fixed priority, first match wins,
\* for every combination of the three command-error bits and of the
\* descriptor's CRC-checked flag: response-timeout gives Timeout; else the
\* CRC-checked flag with response-CRC-error gives InvalidCRC; else
\* response-error gives InvalidResponce; else no error is recorded (so a
\* response-CRC-error bit on a command without the CRC-checked flag records
\* none).  Stated on the call of process_events that processes the command
\* phase, with no error recorded before; when no command error is classified
\* and the call goes on to the data phase, the data phase may record its own.
C22_CommandErrorPriority ==
    [][(/\ EventTaken /\ pc' # "panicked"
        /\ state \in {"SendingCmd", "SendingVoltageSwitch"}
        /\ cmd.err = NoError
        /\ (Snapshot.sdmmc_status
              \cap (SD_CMD_ERR_MASK \cup SDMMC_INTMASK_CMD_DONE)) # {})
        => (/\ (SDMMC_INTMASK_RTO \subseteq Snapshot.sdmmc_status)
                  => cmd'.err = "Timeout"
            /\ (/\ ~(SDMMC_INTMASK_RTO \subseteq Snapshot.sdmmc_status)
                /\ has_flag(cmd, SCF_RSP_CRC)
                /\ SDMMC_INTMASK_RCRC \subseteq Snapshot.sdmmc_status)
                  => cmd'.err = "InvalidCRC"
            /\ (/\ ~(SDMMC_INTMASK_RTO \subseteq Snapshot.sdmmc_status)
                /\ ~(/\ has_flag(cmd, SCF_RSP_CRC)
                     /\ SDMMC_INTMASK_RCRC \subseteq Snapshot.sdmmc_status)
                /\ SDMMC_INTMASK_RESP_ERR \subseteq Snapshot.sdmmc_status)
                  => cmd'.err = "InvalidResponce"
            /\ (/\ (Snapshot.sdmmc_status
                      \cap (SDMMC_INTMASK_RTO \cup SDMMC_INTMASK_RESP_ERR)) = {}
                /\ ~(/\ has_flag(cmd, SCF_RSP_CRC)
                     /\ SDMMC_INTMASK_RCRC \subseteq Snapshot.sdmmc_status)
                /\ ~Entered("SendingData"))
                  => cmd'.err = NoError)]_vars

C22_Witness ==
    /\ pc = "returned"
    /\ ~has_flag(cmd, SCF_RSP_CRC)
    /\ rcvd.sdmmc_status = SDMMC_INTMASK_RCRC \cup SDMMC_INTMASK_CMD_DONE
    /\ trail = <<"Idle">>
    /\ cmd.err = NoError
    /\ ret = "Ok"

\* C23: when the SendingData arm consumes a data-error bit, the error
\* recorded is Timeout for data-timeout; else InvalidCRC for data-CRC-error;
\* else Timeout for end-bit-error on a command that is not a read; else
\* Fail.  In each case the call writes the FIFO reset to ctrl, then stops
\* DMA (twice: in process_data_status and in the arm), and makes no other
\* register write, so DMA is stopped before do_transaction can return.
C23_DataErrorPriorityAndStop ==
    [][(/\ EventTaken /\ pc' # "panicked"
        /\ Entered("SendingData")
        /\ (Snapshot.sdmmc_status \cap SD_DATA_ERR_MASK) # {})
        => (/\ cmd'.err =
                  (IF SDMMC_INTMASK_DTO \subseteq Snapshot.sdmmc_status
                   THEN "Timeout"
                   ELSE IF SDMMC_INTMASK_DCRC \subseteq Snapshot.sdmmc_status
                   THEN "InvalidCRC"
                   ELSE IF /\ SDMMC_INTMASK_EBE \subseteq Snapshot.sdmmc_status
                           /\ ~has_flag(cmd, SCF_CMD_READ)
                   THEN "Timeout"
                   ELSE "Fail")
            /\ log' = log \o <<"ctrl", "ctrl", "ctrl", "bmod",
                               "ctrl", "ctrl", "bmod">>
            /\ ~DmaActive(regs')
            /\ (regs'.ctrl \cap CTRL_USE_INTERNAL_DMAC) = {}
            /\ (unhandled'.sdmmc_status \cap SD_DATA_ERR_MASK) = {})]_vars

C23_Witness ==
    /\ pc = "events"
    /\ state = "SendingData"
    /\ has_flag(cmd, SCF_CMD_READ)
    /\ rcvd.sdmmc_status = SDMMC_INTMASK_EBE
    /\ cmd.err = "Fail"
    /\ ~DmaActive(regs)
    /\ Len(trail) = 2

----------------------------------------------------------------------------
(* Further properties of start_cmd, checked under SpecStart *)

\* C24: in every start_cmd call that writes to the hardware, the argument
\* register is written, then the command register, and nothing else; the
\* word in the command register has use_hold_reg and start_command set and
\* card_num equal to the number of the slot addressed, and is otherwise the
\* word the caller passed; a call that writes nothing returned NotFound or
\* Timeout
C24_ArgThenCmdWithForcedFlags ==
    (pc \in {"start_out", "clk_upd_out"})
        => (/\ log \in {<<>>, <<"cmdarg", "cmd">>}
            /\ (log = <<>>) => (ret \in {"NotFound", "Timeout"})
            /\ (log # <<>>)
                  => (/\ regs.cmd.use_hold_reg
                      /\ regs.cmd.start_command
                      /\ regs.cmd.card_num = (IF cur_slot = "Slot0" THEN 0 ELSE 1)
                      /\ regs.cmdarg = (IF pc = "start_out" THEN cmd.arg ELSE 0)
                      /\ (pc = "start_out")
                            => ([regs.cmd EXCEPT !.use_hold_reg = FALSE,
                                                 !.start_command = FALSE,
                                                 !.card_num = 0]
                                = [hw_cmd EXCEPT !.use_hold_reg = FALSE,
                                                 !.start_command = FALSE,
                                                 !.card_num = 0])))

C24_Witness ==
    /\ pc = "start_out"
    /\ cur_slot = "Slot1"
    /\ ret = "Ok"
    /\ log = <<"cmdarg", "cmd">>
    /\ regs.cmd.card_num = 1
    /\ hw_cmd.card_num = 0
    /\ ~hw_cmd.use_hold_reg
    /\ regs.cmd.data_expected

\* the two registers start_cmd writes have been written, in their order
StartWritten == log = <<"cmdarg", "cmd">>

\* C25: start_cmd waits for cmd_taken before it writes the argument and
\* command registers, for every command except the clock update of the
\* voltage switch (volt_switch and update_clk_reg both set), which it writes
\* without waiting.  A wait that runs out of time (1 second from the start of
\* the call) makes start_cmd return Timeout; when it is the wait before the
\* writes, neither register has been written.  lines.fail is the number of
\* the wait that runs out of time, 0 for none.
C25_WaitsForCmdTaken ==
    (pc \in {"start_out", "clk_upd_out"} /\ ret # "NotFound")
        => (/\ (~(hw_cmd.volt_switch /\ hw_cmd.update_clk_reg) /\ lines.fail = 1)
                  => (ret = "Timeout" /\ log = <<>>
                      /\ regs.cmd = RegsAfterInit.cmd
                      /\ regs.cmdarg = RegsAfterInit.cmdarg)
            /\ (~(hw_cmd.volt_switch /\ hw_cmd.update_clk_reg) /\ lines.fail = 2)
                  => (ret = "Timeout" /\ StartWritten)
            /\ (~(hw_cmd.volt_switch /\ hw_cmd.update_clk_reg) /\ lines.fail = 0)
                  => (ret = "Ok" /\ StartWritten)
            /\ ((hw_cmd.volt_switch /\ hw_cmd.update_clk_reg) /\ lines.fail = 1)
                  => (ret = "Timeout" /\ StartWritten)
            /\ ((hw_cmd.volt_switch /\ hw_cmd.update_clk_reg) /\ lines.fail # 1)
                  => (ret = "Ok" /\ StartWritten))

C25_Witness ==
    /\ pc = "clk_upd_out"
    /\ hw_cmd.volt_switch /\ hw_cmd.update_clk_reg
    /\ lines.fail = 1
    /\ ret = "Timeout"
    /\ StartWritten
    /\ regs.cmd.volt_switch

----------------------------------------------------------------------------
(* Further properties of set_card_clk, checked under SpecClk *)

\* the register writes of a set_card_clk call that succeeds, in order
ClkWrites ==
    <<"clkena", "cmdarg", "cmd", "clksrc", "clkdiv", "clk_edge_sel",
      "cmdarg", "cmd", "clkena", "cmdarg", "cmd", "tmout", "tmout">>

\* C26: set_card_clk disables the slot's card clock, issues a clock update,
\* writes the card and host dividers, issues a clock update, enables the card
\* clock and low-power gating, issues a clock update and programs the
\* timeouts, in this order, with exactly three clock updates on success; it
\* stops at the first clock update that fails; and the slot's card clock is
\* not enabled while the dividers are written (seen in the register file of
\* a call that stopped at the second clock update, before the re-enable)
C26_ClockSequence ==
    (pc = "clk_out")
        => (/\ (ret = "Ok") => (log = ClkWrites)
            /\ (ret # "Ok")
                  => (/\ Len(log) < Len(ClkWrites) - 1
                      /\ log = SubSeq(ClkWrites, 1, Len(log)))
            /\ (Len(log) \in 6..8)
                  => ((Slot_bit(cur_slot) \cap regs.cclk_enable) = {}))

\* C27: after set_card_clk returns Ok with achieved frequency f kHz, the
\* timeout register holds data_timeout = min(100 * f, 0xFFFFFF) together
\* with response_timeout = 255
C27_BothTimeoutsProgrammed ==
    (pc = "clk_out" /\ ret = "Ok")
        => (/\ regs.data_timeout
                  = (IF 100 * freq_khz < 16777215 THEN 100 * freq_khz
                     ELSE 16777215)
            /\ regs.response_timeout = 255)

----------------------------------------------------------------------------
(* Properties of the post-command busy wait, checked under SpecBusy *)

\* the polls wait_for_busy_cleared makes at most for a timeout
MaxPolls(timeout_ms) == IF timeout_ms = 0 THEN 1 ELSE as_ticks(timeout_ms)

\* C28: the busy wait runs only when the event loop ended with ret Ok and the
\* descriptor has the wait-busy flag, and then it does run; it polls the
\* busy line, yields after each poll that reads busy, and returns as soon as
\* a poll reads clear, leaving ret Ok; it makes at most as_ticks(timeout_ms)
\* polls, a single one without a yield when timeout_ms is 0; and when no
\* poll reads clear do_transaction returns Timeout.
C28_BusyWaitBounded ==
    /\ [][(pc = "busy_in")
            => (/\ (pc' = "busy_poll") <=> (ret = "Ok" /\ has_flag(cmd, SCF_WAIT_BUSY))
                /\ (pc' = "returned") => (ret' = ret /\ busy_wait' = busy_wait))]_vars
    /\ [][(pc = "busy_poll" /\ pc' = "busy_poll")
            => (/\ busy_wait'.polls = busy_wait.polls + 1
                /\ busy_wait'.yields = busy_wait.yields + 1
                /\ (busy_wait.busy_for = BusyStuck
                        \/ busy_wait.polls < busy_wait.busy_for))]_vars
    /\ [](busy_wait.polls <= MaxPolls(cmd.timeout_ms))
    /\ [][(pc = "busy_poll" /\ pc' = "returned")
            => IF /\ busy_wait.busy_for # BusyStuck
                  /\ busy_wait.busy_for < MaxPolls(cmd.timeout_ms)
               THEN /\ ret' = "Ok"
                    /\ busy_wait'.polls = busy_wait.busy_for + 1
                    /\ busy_wait'.yields = busy_wait.busy_for
               ELSE /\ ret' = "Timeout"
                    /\ busy_wait'.polls = MaxPolls(cmd.timeout_ms)
                    /\ busy_wait'.yields = as_ticks(cmd.timeout_ms)]_vars

C28_Witness ==
    /\ pc = "returned"
    /\ ret = "Timeout"
    /\ has_flag(cmd, SCF_WAIT_BUSY)
    /\ busy_wait.busy_for = BusyStuck
    /\ cmd.timeout_ms = MaxTimeoutMs
    /\ busy_wait.polls = as_ticks(MaxTimeoutMs)

----------------------------------------------------------------------------
(* Properties of cmd_send_op_cond, checked under SpecOpCond *)

\* the failed attempts so far
OpCondErrors == MAX_ERRORS - op_cond.err_cnt

OpCondReady(o) == o.last.ret = "Ok" /\ (o.last.r0 \cap MMC_OCR_MEM_READY # {} \/ o.ocr = {})

----------------------------------------------------------------------------
(* The clock programming of a submission, checked under Spec *)

\* the registers set_card_clk programs
ClockRegisters == {"clkena", "clksrc", "clkdiv", "clk_edge_sel", "tmout"}

\* the writes of the command register in a log: the command of the
\* submission and each clock update
CmdWrites(l) == Cardinality({i \in 1..Len(l) : l[i] = "cmd"})

\* C30: a submission reprograms the clock only when it addresses another slot
\* than the active one.  An SdmmcCard addresses its one slot, SelfSlot, in
\* every submission, so that no submission is a switch of slots: a submission
\* (other than a voltage switch, which sets the clock always on) writes none
\* of the clock-enable, clock-source, clock-divider and timeout registers, and
\* writes the command register at most once, for its command and not for a
\* clock update.
C30_SameSlotLeavesClockAlone ==
    [][(txs' = txs + 1 /\ cur_slot = SelfSlot /\ cmd'.opcode # SD_SWITCH_VOLTAGE)
        => (/\ \A i \in 1..Len(log') : log'[i] \notin ClockRegisters
            /\ CmdWrites(log') <= 1
            /\ regs'.cclk_enable = regs.cclk_enable
            /\ regs'.data_timeout = regs.data_timeout)]_vars

----------------------------------------------------------------------------
(* Properties of the voltage-switch clock stages, checked under SpecVolt *)

\* C31: stage 1 puts the low-power gating bit of the slot in the always-on
\* setting, the bit keeps it until stage 3, and stage 3 puts it in the
\* opposite setting: stage 3 changes the low-power-enable field that stage 1
\* left, and the slot's bit has different values after stage 1 and stage 3.
C31_Stage3UndoesStage1 ==
    [][(pc = "volt_wait" /\ pc' = "volt_out")
        => (/\ regs'.lp_enable # regs.lp_enable
            /\ (Slot_bit(cur_slot) \subseteq regs'.lp_enable)
                    # (Slot_bit(cur_slot) \subseteq regs.lp_enable))]_vars

----------------------------------------------------------------------------
(* The slot frame of the clock operations, checked under SpecClk *)

OtherSlot(slot) == IF slot = "Slot0" THEN "Slot1" ELSE "Slot0"

\* the clock state of a slot: its bits of CLKENA and its card divider
SlotClock(r, slot) ==
    [cclk_enable |-> Slot_bit(slot) \subseteq r.cclk_enable,
     lp_enable |-> Slot_bit(slot) \subseteq r.lp_enable,
     divider |-> IF slot = "Slot0" THEN r.clk_divider0 ELSE r.clk_divider1]

\* C32: a set_card_clk addressed to slot s, with its disable and enable steps
\* and its divider write, leaves the card-clock-enable bit, the
\* low-power-enable bit and the card divider of the other slot as they were,
\* for s = Slot0 and for s = Slot1.
C32_OtherSlotUntouched ==
    [][(pc = "clk_in" /\ pc' # "clk_in")
        => SlotClock(regs', OtherSlot(cur_slot)) = SlotClock(regs, OtherSlot(cur_slot))]_vars

----------------------------------------------------------------------------
(* The order of the transaction states, checked under Spec *)

\* the two chains of enum State along which a transaction advances
StateChains ==
    {<<"SendingCmd", "SendingData", "Busy", "Idle">>,
     <<"SendingVoltageSwitch", "WaitingVoltageSwitch", "Idle">>}

\* b is a, or comes after a in a chain
Forward(a, b) ==
    \E ch \in StateChains :
        \E i \in 1..Len(ch), j \in 1..Len(ch) : i <= j /\ ch[i] = a /\ ch[j] = b

\* C33: within a transaction the state stays or moves forward along its
\* chain, never backwards and never to the other chain, and stays Idle once
\* Idle; the state a process_events call starts and ends with is one of the
\* six states and never the placeholder None; and the loop of a
\* process_events call makes at most four iterations, each one forward of
\* the one before.
C33_StateOnlyMovesForward ==
    /\ [](state \in States)
    /\ [][(txs' = txs) => Forward(state, state')]_vars
    /\ [](/\ Len(visited) <= 4
          /\ \A i \in 1..Len(visited) : visited[i] \in States
          /\ \A i \in 1..(Len(visited) - 1) : Forward(visited[i], visited[i + 1]))

C33_Witness ==
    /\ visited = <<"SendingCmd", "SendingData", "Busy">>
    /\ state = "Busy"

----------------------------------------------------------------------------
(* Properties of back-to-back transactions, checked under SpecSeq *)

\* C34: when a transaction begins its event loop, EVENT_QUEUE holds no Event
\* produced before its command was started, so that no Event of an earlier
\* transaction reaches the state machine of a later one: at the step that
\* starts the command and enters the loop the queue is empty.
C34_QueueEmptyAtLoopEntry ==
    [][(txs' = txs + 1 /\ pc' = "events") => EVENT_QUEUE' = <<>>]_vars

----------------------------------------------------------------------------
(* DMA at an error return of do_transaction, checked under Spec *)

\* dma_prepare has run in the transaction: it is the one writer of DBADDR
DmaArmed == \E i \in 1..Len(log) : log[i] = "dbaddr"

\* C35: when do_transaction returns an error for a data command after
\* dma_prepare has armed DMA, DMA is not running at the return; this includes
\* the returns on a start_cmd that fails with NotFound or with Timeout.
C35_ErrorReturnStopsDma ==
    (pc = "returned" /\ ret # "Ok" /\ cmd.data /\ DmaArmed) => ~DmaActive(regs)

----------------------------------------------------------------------------
(* The control register across error recovery, checked under Spec *)

\* the bits of CTRL that stopping DMA and resetting the FIFO are for
RecoveryBits ==
    CTRL_DMA_RESET \cup CTRL_DMA_ENABLE \cup CTRL_USE_INTERNAL_DMAC
        \cup CTRL_FIFO_RESET

\* C36: the steps of the event loop, with the dma_stop and the FIFO reset
\* they make on a data error or a timeout, change only the DMA-reset,
\* DMA-enable and FIFO-reset bits of CTRL; the global interrupt-enable bit
\* that init set stays set, and the handler can deliver further Events.
C36_RecoveryKeepsIntEnable ==
    [][(pc = "events")
        => (/\ regs'.ctrl \ RecoveryBits = regs.ctrl \ RecoveryBits
            /\ (CTRL_INT_ENABLE \subseteq regs.ctrl)
                    => (CTRL_INT_ENABLE \subseteq regs'.ctrl))]_vars

----------------------------------------------------------------------------
(* Repeated clock configuration, checked under SpecClk *)

\* C37: after set_card_clk has returned Ok and written the achieved
\* frequency back, a second set_card_clk with the written-back value would
\* program the dividers the first call programmed: get_clk_divs of the
\* written-back frequency is the pair of host divider and card divider now
\* in the registers.
C37_RepeatedClockStable ==
    (pc = "clk_out" /\ ret = "Ok")
        => get_clk_divs(freq_khz)
              = <<get_clock_div(regs), get_card_clock_div(regs, cur_slot)>>

----------------------------------------------------------------------------
(* The range of the dividers, checked under SpecClk *)

\* C38: for every request of at least 1 kHz the host divider get_clk_divs
\* returns is in 2..16, so that the assertion of set_clk_div holds and
\* set_card_clk does not panic, and the card divider fits in eight bits
\* before it is narrowed: the narrowing `as u8` changes neither divider.
C38_DividersInRange ==
    (pc # "clk_in")
        => (/\ get_clk_divs(req_khz)[1] \in 2..16
            /\ pc # "panicked"
            /\ get_clk_divs_wide(req_khz)[2] < U8
            /\ get_clk_divs(req_khz) = get_clk_divs_wide(req_khz))


\* the Events in the queue whose sdmmc_status (dma_status) has bit b
QueuedSd(b) ==
    Cardinality({i \in 1..Len(EVENT_QUEUE) : b \in EVENT_QUEUE[i].sdmmc_status})

QueuedDma(b) ==
    Cardinality({i \in 1..Len(EVENT_QUEUE) : b \in EVENT_QUEUE[i].dma_status})

\* the bits the running handler has cleared in the register and not yet sent
HeldSd ==
    IF intr.hpc \in {"read_idsts", "write_idsts", "send"}
    THEN isr.pending ELSE {}

HeldDma == IF intr.hpc = "send" THEN isr.dma_pending ELSE {}

\* every time the hardware set bit b is accounted for exactly once: the bit
\* is still set in the register, or the handler holds it, or it is in one
\* Event of the queue, or the consumer received it
AccountedOnce ==
    /\ \A b \in RaceSdBits :
          intr.raised_sd[b] =
              (IF b \in intr.rintsts THEN 1 ELSE 0)
              + (IF b \in HeldSd THEN 1 ELSE 0)
              + QueuedSd(b) + intr.got_sd[b]
    /\ \A b \in RaceDmaBits :
          intr.raised_dma[b] =
              (IF b \in intr.idsts THEN 1 ELSE 0)
              + (IF b \in HeldDma THEN 1 ELSE 0)
              + QueuedDma(b) + intr.got_dma[b]

\* every bit the hardware set is in an Event of the queue or was received
AllPublished ==
    /\ \A b \in RaceSdBits : intr.raised_sd[b] = QueuedSd(b) + intr.got_sd[b]
    /\ \A b \in RaceDmaBits :
          intr.raised_dma[b] = QueuedDma(b) + intr.got_dma[b]

C40_LoopBoundedByTimeout == (pc = "events") ~> (pc = "returned")

====
